---- MODULE Spec2Model ----
(***************************************************************************)
(* Model of the authentication / authorization core of OpenSourceDUTH/API  *)
(* (package auth): the relational store of the auth database, the OAuth    *)
(* state registry, the login callback, the session registry, the feature   *)
(* registry and the token service.                                         *)
(*                                                                         *)
(* Every SQL statement is one atomic step of the store.  A table is the    *)
(* set of its rows, a row is a record whose fields carry the column names  *)
(* of migrations/auth/000001_init.up.sql.                                  *)
(***************************************************************************)
EXTENDS Integers, Sequences, FiniteSets, TLC

VARIABLES
    now,                \* time.Now(), in ticks
    foreignKeys,        \* whether the SQLite connection enforces FOREIGN KEY clauses
    issuing,            \* the CreateUserToken calls between their checks and createToken
    groups,             \* table groups
    academic_domains,   \* table academic_domains
    users,              \* table users
    oauth_identities,   \* table oauth_identities
    oauth_states,       \* table oauth_states
    sessions,           \* table sessions
    sessionSeq,         \* number of session ids generated so far (uuid.New)
    issued,             \* the rows CreateState has inserted so far
    validateLog,        \* per state: what the ValidateState calls on it returned
    cbResp,             \* what the last Login / Callback request observed and answered
    features,           \* table features
    featureSeq,         \* the largest feature id given out so far (AUTOINCREMENT)
    tokens,             \* table tokens
    token_features,     \* table token_features
    token_allowed_ips,  \* table token_allowed_ips
    entropy,            \* what rand.Read will yield: the bodies of the tokens to come
    minted,             \* what the successful issuances returned
    tkResp,             \* the last request to the token service or the catalog, and its answer
    group_feature_quotas, \* table group_feature_quotas
    user_quota_overrides, \* table user_quota_overrides
    usage_log,          \* table usage_log
    usageSeq,           \* the largest usage_log id given out so far (AUTOINCREMENT)
    recordSeq,          \* number of RecordRequest calls made so far
    buffer,             \* UsageTracker.buffer: the entries in the channel, oldest first
    batch,              \* the batch of the usageWriter goroutine
    tickerC,            \* whether the writer's ticker.C holds a tick
    cancelled,          \* whether the context is cancelled and stopCh closed
    writerPc,           \* where the usageWriter goroutine is: "select", "drain" or "done"
    cleanupC,           \* whether the ticker.C of cleanupTicker holds a tick
    cleanerPc           \* where the cleanupTicker goroutine is: "select" or "done"

tokenTables == <<features, featureSeq, tokens, token_features, token_allowed_ips,
                 entropy, minted>>

tokenVars == <<tokenTables, tkResp>>

loginVars == <<oauth_identities, oauth_states, sessions, sessionSeq, issued,
               validateLog, cbResp>>

quotaVars == <<group_feature_quotas, user_quota_overrides>>

usageVars == <<usage_log, usageSeq, recordSeq, buffer, batch, tickerC, cancelled,
               writerPc, cleanupC, cleanerPc>>
cleanerVars == <<cleanupC, cleanerPc>>

vars == <<now, foreignKeys, issuing, groups, academic_domains, users, oauth_identities,
          oauth_states, sessions, sessionSeq, issued, validateLog, cbResp,
          features, featureSeq, tokens, token_features, token_allowed_ips,
          entropy, minted, tkResp, group_feature_quotas, user_quota_overrides,
          usage_log, usageSeq, recordSeq, buffer, batch, tickerC, cancelled,
          writerPc, cleanupC, cleanerPc>>

----------------------------------------------------------------------------
(* Bounds of the model *)

\* The clock runs from 0 to MaxTime.
MaxTime == 2

----------------------------------------------------------------------------
(* Program constants *)

\* OAuthStateExpiry = 10 * time.Minute; in the login specification one tick is 10 minutes.
OAuthStateExpiry == 1

\* users.max_tokens INTEGER NOT NULL DEFAULT 5
DefaultMaxTokens == 5

\* The id no AUTOINCREMENT row ever has; stands for a nil *User, a nil *Session.
NoId == 0

RoleUser == "user"
RoleAdmin == "admin"
StatusActive == "active"
StatusSuspended == "suspended"
ProviderGoogle == "google"
ProviderGitHub == "github"

Min(a, b) == IF a < b THEN a ELSE b

----------------------------------------------------------------------------
(* Feature catalog *)

\* INSERT INTO features ...: the six seeded features, ids in insertion order.
SeedFeatures ==
    { [id |-> 1, slug |-> "maps", parent_id |-> NoId, admin_only |-> FALSE],
      [id |-> 2, slug |-> "schedule", parent_id |-> NoId, admin_only |-> FALSE],
      [id |-> 3, slug |-> "search", parent_id |-> NoId, admin_only |-> FALSE],
      [id |-> 4, slug |-> "maps.tiles", parent_id |-> 1, admin_only |-> FALSE],
      [id |-> 5, slug |-> "maps.routing", parent_id |-> 1, admin_only |-> FALSE],
      [id |-> 6, slug |-> "maps.geocoding", parent_id |-> 1, admin_only |-> FALSE] }

----------------------------------------------------------------------------
(* Identity store: groups, academic domains, users, OAuth identities *)

\* The rows the migration seeds into groups.
SeedGroups ==
    { [id |-> 1, name |-> "regular", default_rpm |-> 60],
      [id |-> 2, name |-> "academic", default_rpm |-> 120] }

\* The row the migration seeds into academic_domains.
SeedAcademicDomains == {"cs.duth.gr"}

\* INSERT INTO group_feature_quotas ... FROM groups g CROSS JOIN features f: one
\* row per seeded group and feature.  rpm_limit is <<n>>, or <<>> for NULL.
SeedGroupQuotas ==
    { [group_id |-> g.id, feature_id |-> f.id,
       rpm_limit |->
          LET academic == g.name = "academic"
          IN  CASE f.slug = "maps.tiles" -> IF academic THEN <<500>> ELSE <<250>>
                [] f.slug = "maps.routing" -> IF academic THEN <<100>> ELSE <<50>>
                [] f.slug = "maps.geocoding" -> IF academic THEN <<100>> ELSE <<50>>
                [] f.slug = "maps" -> IF academic THEN <<200>> ELSE <<100>>
                [] f.slug = "schedule" -> IF academic THEN <<120>> ELSE <<60>>
                [] f.slug = "search" -> IF academic THEN <<120>> ELSE <<60>>
                [] OTHER -> <<g.default_rpm>>] :
        g \in SeedGroups, f \in SeedFeatures }

NilGroup == [id |-> NoId, name |-> "", default_rpm |-> 0]

NilUser == [id |-> NoId, email |-> <<>>, role |-> RoleUser, status |-> StatusActive,
            group_id |-> NoId, max_tokens |-> 0]

\* SELECT ... FROM groups WHERE name = ?  (nil when there is no row)
GetGroupByName(name) ==
    IF \E g \in groups : g.name = name
    THEN CHOOSE g \in groups : g.name = name
    ELSE NilGroup

\* SELECT COUNT(*) FROM academic_domains WHERE domain = ?  > 0
IsAcademicDomain(domain) == domain \in academic_domains

\* SELECT ... FROM users u JOIN groups g ON u.group_id = g.id WHERE u.id = ?
\* The inner join yields no row, hence nil, for a user whose group row is gone.
GetUserByID(id) ==
    IF \E u \in users : u.id = id /\ (\E g \in groups : g.id = u.group_id)
    THEN CHOOSE u \in users : u.id = id
    ELSE NilUser

\* SELECT ... FROM users WHERE email = ?  (no join)
GetUserByEmail(email) ==
    IF \E u \in users : u.email = email
    THEN CHOOSE u \in users : u.email = email
    ELSE NilUser

\* SELECT ... FROM oauth_identities WHERE provider = ? AND provider_id = ?
GetOAuthIdentity(provider, providerID) ==
    IF \E o \in oauth_identities : o.provider = provider /\ o.provider_id = providerID
    THEN CHOOSE o \in oauth_identities : o.provider = provider /\ o.provider_id = providerID
    ELSE [user_id |-> NoId, provider |-> provider, provider_id |-> providerID]

\* strings.ToLower on the domains the model uses.
ToLower(s) ==
    CASE s = "CS.DUTH.GR" -> "cs.duth.gr"
      [] s = "Example.org" -> "example.org"
      [] OTHER -> s

\* Mutant of determineGroupForEmail: the domain is the part after the last '@',
\* however many '@' the e-mail has.
determineGroupForEmailLastAt(email) ==
    LET regular == GetGroupByName("regular")
        academic == GetGroupByName("academic")
    IN  IF Len(email) < 2
        THEN (IF regular.id = NoId THEN 1 ELSE regular.id)
        ELSE IF IsAcademicDomain(ToLower(email[Len(email)]))
             THEN (IF academic.id = NoId THEN 1 ELSE academic.id)
             ELSE (IF regular.id = NoId THEN 1 ELSE regular.id)

\* An e-mail address is represented by the result of strings.Split(email, "@").
determineGroupForEmail(email) ==
    LET regular == GetGroupByName("regular")
        academic == GetGroupByName("academic")
    IN  IF Len(email) # 2
        THEN (IF regular.id = NoId THEN 1 ELSE regular.id)
        ELSE IF IsAcademicDomain(ToLower(email[2]))
             THEN (IF academic.id = NoId THEN 1 ELSE academic.id)
             ELSE (IF regular.id = NoId THEN 1 ELSE regular.id)

\* INSERT INTO users (email, display_name, group_id): the constraints of the table.
CreateUserOk(email, groupID) ==
    /\ \A u \in users : u.email # email
    /\ foreignKeys => \E g \in groups : g.id = groupID

\* The row CreateUser inserts: AUTOINCREMENT id, column defaults.
NewUserRow(email, groupID) ==
    [id |-> Cardinality(users) + 1, email |-> email, role |-> RoleUser,
     status |-> StatusActive, group_id |-> groupID, max_tokens |-> DefaultMaxTokens]

\* INSERT INTO oauth_identities: UNIQUE (user_id, provider), UNIQUE (provider, provider_id).
CreateOAuthIdentityOk(idents, userID, provider, providerID) ==
    /\ \A o \in idents : ~(o.user_id = userID /\ o.provider = provider)
    /\ \A o \in idents : ~(o.provider = provider /\ o.provider_id = providerID)

\* findOrCreateUser: by identity, else by e-mail (linking a new identity), else a new
\* user in the group determineGroupForEmail gives.  The result carries the tables
\* as the calls leave them, the user GetUserByID returns at the end (NilUser for a
\* nil *User) and whether an error was returned.
findOrCreateUser(info, provider) ==
    LET identity == GetOAuthIdentity(provider, info.provider_id)
        byEmail == GetUserByEmail(info.email)
        groupID == determineGroupForEmail(info.email)
        row == NewUserRow(info.email, groupID)
        linked == [user_id |-> byEmail.id, provider |-> provider,
                   provider_id |-> info.provider_id]
        fresh == [user_id |-> row.id, provider |-> provider,
                  provider_id |-> info.provider_id]
    IN  IF identity.user_id # NoId
        THEN [err |-> FALSE, user |-> GetUserByID(identity.user_id),
              users |-> users, idents |-> oauth_identities]
        ELSE IF byEmail.id # NoId
        THEN IF CreateOAuthIdentityOk(oauth_identities, byEmail.id, provider, info.provider_id)
             THEN [err |-> FALSE, user |-> GetUserByID(byEmail.id),
                   users |-> users, idents |-> oauth_identities \cup {linked}]
             ELSE [err |-> TRUE, user |-> NilUser,
                   users |-> users, idents |-> oauth_identities]
        ELSE IF ~CreateUserOk(info.email, groupID)
        THEN [err |-> TRUE, user |-> NilUser, users |-> users, idents |-> oauth_identities]
        \* CreateUser ends with GetUserByID(id): a nil user when the group row is missing
        \* makes the caller dereference nil (user.ID), a panic answered 500.
        ELSE IF ~(\E g \in groups : g.id = groupID)
        THEN [err |-> TRUE, user |-> NilUser,
              users |-> users \cup {row}, idents |-> oauth_identities]
        ELSE [err |-> FALSE, user |-> row,
              users |-> users \cup {row}, idents |-> oauth_identities \cup {fresh}]

----------------------------------------------------------------------------
(* OAuth state registry *)

\* The values base64(32 random bytes) takes in the model.  A value is drawn
\* once: two draws of 32 random bytes do not collide.
StateStrings == {"s1", "s2"}

\* The row CreateState inserts.
NewStateRow(state) == [state |-> state, expires_at |-> now + OAuthStateExpiry]

\* DELETE FROM oauth_states WHERE state = ? AND expires_at > ?  -- the rows it removes
ValidateStateRows(state) ==
    { r \in oauth_states : r.state = state /\ r.expires_at > now }

\* Mutant of ValidateStateDelete: the state is checked and left in the table.
ValidateStateKeep(state) == oauth_states

\* The table after ValidateState's DELETE.
ValidateStateDelete(state) == oauth_states \ ValidateStateRows(state)

\* rowsAffected > 0
ValidateState(state) == ValidateStateRows(state) # {}

\* DELETE FROM oauth_states WHERE expires_at <= ?
CleanupExpiredStatesDelete == { r \in oauth_states : ~(r.expires_at <= now) }

----------------------------------------------------------------------------
(* Session registry *)

\* The configured session lifetime (SESSION_DURATION), in ticks.
SessionDuration == 2

\* The row CreateSession inserts; the id stands for uuid.New().
NewSessionRow(userID) ==
    [id |-> sessionSeq + 1, user_id |-> userID, expires_at |-> now + SessionDuration]

----------------------------------------------------------------------------
(* Repository.UpdateUser: one UPDATE per field given, in the order role,    *)
(* status, group_id, max_tokens.  "" and a negative number stand for nil.   *)

NoInt == 0 - 1

SetField(rows, id, f, v) ==
    { IF u.id = id THEN [u EXCEPT ![f] = v] ELSE u : u \in rows }

\* UPDATE users SET group_id = ?: refused under enforced foreign keys when the
\* row exists and the group does not.
UpdateGroupRefused(id, groupID) ==
    /\ groupID # NoInt
    /\ foreignKeys
    /\ \E u \in users : u.id = id
    /\ ~(\E g \in groups : g.id = groupID)

\* The users table after UpdateUser; the updates before a refused one stay applied.
UpdateUserRows(id, role, status, groupID, maxTokens) ==
    LET r1 == IF role # "" THEN SetField(users, id, "role", role) ELSE users
        r2 == IF status # "" THEN SetField(r1, id, "status", status) ELSE r1
        r3 == IF groupID # NoInt THEN SetField(r2, id, "group_id", groupID) ELSE r2
        r4 == IF maxTokens # NoInt THEN SetField(r3, id, "max_tokens", maxTokens) ELSE r3
    IN  IF UpdateGroupRefused(id, groupID) THEN r2 ELSE r4

----------------------------------------------------------------------------
(* Login and Callback handlers *)

\* The providers whose client id and secret are set in the environment.
ConfiguredProviders == {ProviderGoogle}

\* What GetUserInfo returns: the normalized provider id and e-mail.
UserInfos ==
    { [provider_id |-> "42", email |-> <<"alice", "cs.duth.gr">>],
      [provider_id |-> "44", email |-> <<"alice", "cs.duth.gr">>] }

\* GetUserInfo failed.
NoInfo == [provider_id |-> "", email |-> <<>>]

\* The authorization codes of the model: the provider exchanges "C" and refuses "X".
Codes == {"", "C", "X"}

\* What a request observed and answered: the status, the state of the query,
\* whether the cookie was present and equal to it, whether an error parameter and a
\* code were given, whether the registry held the state unexpired when the request
\* arrived, the status of the user it resolved and the session it created.
NoResp == [op |-> "", status |-> 0, query |-> "", match |-> FALSE, error |-> FALSE,
           code |-> FALSE, wasLive |-> FALSE, userStatus |-> "", session |-> NoId]

\* No request to the token service or the catalog is being answered.
NoTkResp == [op |-> "", req |-> <<>>, out |-> <<>>]

\* One more call of ValidateState(state) in the log: how many calls returned
\* true (counted up to 2), and whether a call was made on a state CreateState
\* had returned, before its expiry.
Logged(state, ok) ==
    [validateLog EXCEPT ![state] =
        [ok |-> IF ok THEN Min(@.ok + 1, 2) ELSE @.ok,
         live |-> @.live \/ (\E r \in issued : r.state = state /\ now < r.expires_at)]]

\* GET /auth/login/:provider
Login(provider, state) ==
    /\ state \in StateStrings \ { r.state : r \in issued }
    /\ IF provider \in {ProviderGoogle, ProviderGitHub} /\ provider \in ConfiguredProviders
       THEN /\ oauth_states' = oauth_states \cup {NewStateRow(state)}
            /\ issued' = issued \cup {NewStateRow(state)}
            /\ cbResp' = [NoResp EXCEPT !.op = "Login", !.status = 307, !.query = state]
       ELSE /\ UNCHANGED <<oauth_states, issued>>
            /\ cbResp' = [NoResp EXCEPT !.op = "Login", !.status = 400]
    /\ UNCHANGED <<now, foreignKeys, issuing, quotaVars, usageVars, groups, academic_domains, users, oauth_identities,
                   sessions, sessionSeq, validateLog>>
    /\ UNCHANGED tokenVars

\* Mutant of CallbackStatus: the status of the resolved user is not looked at.
CallbackStatusAnyUser(supported, reached, valid, errMsg, code, exchanged, gotInfo, found) ==
    IF ~supported \/ ~reached \/ ~valid \/ errMsg # "" \/ code = "" THEN 400
    ELSE IF ~exchanged \/ ~gotInfo \/ found.err \/ found.user.id = NoId THEN 500
    ELSE 200

\* The status Callback answers, from how far the request got.
CallbackStatus(supported, reached, valid, errMsg, code, exchanged, gotInfo, found) ==
    IF ~supported THEN 400
    ELSE IF ~reached THEN 400
    ELSE IF ~valid THEN 400
    ELSE IF errMsg # "" THEN 400
    ELSE IF code = "" THEN 400
    ELSE IF ~exchanged THEN 500
    ELSE IF ~gotInfo THEN 500
    ELSE IF found.err \/ found.user.id = NoId THEN 500
    ELSE IF found.user.status # StatusActive THEN 403
    ELSE 200

\* Mutant of Callback: the provider error and the code are looked at before the
\* state is validated, so a callback that fails on them leaves the state.
CallbackErrorFirst(provider, queryState, cookieState, errMsg, code, info) ==
    LET supported == provider \in {ProviderGoogle, ProviderGitHub}
        reached == supported /\ cookieState # "" /\ queryState = cookieState
        valid == reached /\ ValidateState(queryState)
        exchanged == /\ valid /\ errMsg = "" /\ code # ""
                     /\ provider \in ConfiguredProviders /\ code = "C"
        gotInfo == exchanged /\ info # NoInfo
        found == findOrCreateUser(info, provider)
        status == CallbackStatus(supported, reached, valid, errMsg, code,
                                 exchanged, gotInfo, found)
        session == NewSessionRow(found.user.id)
    IN  /\ oauth_states' = IF reached /\ errMsg = "" /\ code # ""
                          THEN ValidateStateDelete(queryState) ELSE oauth_states
        /\ validateLog' = IF reached THEN Logged(queryState, valid) ELSE validateLog
        /\ users' = IF gotInfo THEN found.users ELSE users
        /\ oauth_identities' = IF gotInfo THEN found.idents ELSE oauth_identities
        /\ sessions' = IF status = 200 THEN sessions \cup {session} ELSE sessions
        /\ sessionSeq' = IF status = 200 THEN sessionSeq + 1 ELSE sessionSeq
        /\ cbResp' = [op |-> "Callback", status |-> status, query |-> queryState,
                      match |-> cookieState # "" /\ cookieState = queryState,
                      error |-> errMsg # "", code |-> code # "",
                      wasLive |-> \E r \in oauth_states :
                                      r.state = queryState /\ now < r.expires_at,
                      userStatus |-> IF gotInfo /\ ~found.err /\ found.user.id # NoId
                                     THEN found.user.status ELSE "",
                      session |-> IF sessions' # sessions
                                  THEN (CHOOSE x \in sessions' \ sessions : TRUE).id
                                  ELSE NoId]
        /\ UNCHANGED <<now, foreignKeys, issuing, quotaVars, usageVars, groups, academic_domains, issued>>
        /\ UNCHANGED tokenVars

\* GET /auth/callback/:provider, with the state of the query and of the cookie
\* ("" for an absent cookie), the error and code parameters,
\* and the user info the provider returns.
Callback(provider, queryState, cookieState, errMsg, code, info) ==
    LET supported == provider \in {ProviderGoogle, ProviderGitHub}
        reached == supported /\ cookieState # "" /\ queryState = cookieState
        valid == reached /\ ValidateState(queryState)
        exchanged == /\ valid /\ errMsg = "" /\ code # ""
                     /\ provider \in ConfiguredProviders /\ code = "C"
        gotInfo == exchanged /\ info # NoInfo
        found == findOrCreateUser(info, provider)
        status == CallbackStatus(supported, reached, valid, errMsg, code,
                                 exchanged, gotInfo, found)
        session == NewSessionRow(found.user.id)
    IN  /\ oauth_states' = IF reached THEN ValidateStateDelete(queryState) ELSE oauth_states
        /\ validateLog' = IF reached THEN Logged(queryState, valid) ELSE validateLog
        /\ users' = IF gotInfo THEN found.users ELSE users
        /\ oauth_identities' = IF gotInfo THEN found.idents ELSE oauth_identities
        /\ sessions' = IF status = 200 THEN sessions \cup {session} ELSE sessions
        /\ sessionSeq' = IF status = 200 THEN sessionSeq + 1 ELSE sessionSeq
        /\ cbResp' = [op |-> "Callback", status |-> status, query |-> queryState,
                      match |-> cookieState # "" /\ cookieState = queryState,
                      error |-> errMsg # "", code |-> code # "",
                      wasLive |-> \E r \in oauth_states :
                                      r.state = queryState /\ now < r.expires_at,
                      userStatus |-> IF gotInfo /\ ~found.err /\ found.user.id # NoId
                                     THEN found.user.status ELSE "",
                      session |-> IF sessions' # sessions
                                  THEN (CHOOSE x \in sessions' \ sessions : TRUE).id
                                  ELSE NoId]
        /\ UNCHANGED <<now, foreignKeys, issuing, quotaVars, usageVars, groups, academic_domains, issued>>
        /\ UNCHANGED tokenVars

\* The maintenance loop's call of CleanupExpiredStates.
CleanupExpiredStates ==
    /\ oauth_states' = CleanupExpiredStatesDelete
    /\ UNCHANGED <<now, foreignKeys, issuing, quotaVars, usageVars, groups, academic_domains, users, oauth_identities,
                   sessions, sessionSeq, issued, validateLog, cbResp>>
    /\ UNCHANGED tokenVars

\* PATCH /admin/users/:id
UpdateUser(id, role, status, groupID, maxTokens) ==
    /\ users' = UpdateUserRows(id, role, status, groupID, maxTokens)
    /\ tkResp' = NoTkResp
    /\ UNCHANGED <<now, foreignKeys, issuing, quotaVars, usageVars, groups, academic_domains, loginVars, tokenTables>>

\* Time passes.
Tick ==
    /\ now < MaxTime
    /\ now' = now + 1
    /\ tkResp' = NoTkResp
    /\ UNCHANGED <<foreignKeys, issuing, quotaVars, usageVars, groups, academic_domains, users, loginVars, tokenTables>>

----------------------------------------------------------------------------
(* The login specification: logins, callbacks, suspensions and the cleanup  *)
(* of the maintenance loop, over a freshly migrated database.               *)

InitLogin ==
    /\ now = 0
    /\ foreignKeys = FALSE
    /\ issuing = {}
    /\ groups = SeedGroups
    /\ academic_domains = SeedAcademicDomains
    /\ users = {}
    /\ oauth_identities = {}
    /\ oauth_states = {}
    /\ sessions = {}
    /\ sessionSeq = 0
    /\ issued = {}
    /\ validateLog = [s \in StateStrings \cup {""} |-> [ok |-> 0, live |-> FALSE]]
    /\ cbResp = NoResp
    /\ features = SeedFeatures
    /\ featureSeq = Cardinality(SeedFeatures)
    /\ tokens = {}
    /\ token_features = {}
    /\ token_allowed_ips = {}
    /\ entropy = <<>>
    /\ minted = {}
    /\ tkResp = NoTkResp
    /\ group_feature_quotas = SeedGroupQuotas
    /\ user_quota_overrides = {}
    /\ usage_log = {}
    /\ usageSeq = 0
    /\ recordSeq = 0
    /\ buffer = <<>>
    /\ batch = <<>>
    /\ tickerC = FALSE
    /\ cancelled = FALSE
    /\ writerPc = "select"
    /\ cleanupC = FALSE
    /\ cleanerPc = "select"

\* The callback requests: every provider, query state and cookie; a provider
\* error or a code; a user info only where the code is one the provider accepts
\* (the handler reads it nowhere else).
CallbackRequests ==
    { r \in [provider : {ProviderGoogle, ProviderGitHub, "gitlab"},
             state : StateStrings \cup {""}, cookie : StateStrings \cup {""},
             error : {"", "access_denied"}, code : Codes,
             info : UserInfos \cup {NoInfo}] :
        /\ r.code # "C" => r.info = NoInfo
        /\ r.error # "" => r.code # "X" /\ r.info = NoInfo
        /\ r.provider = "gitlab" => r.cookie = r.state }

NextLogin ==
    \/ Tick
    \/ \E p \in {ProviderGoogle, ProviderGitHub, "gitlab"}, s \in StateStrings : Login(p, s)
    \/ \E r \in CallbackRequests :
            Callback(r.provider, r.state, r.cookie, r.error, r.code, r.info)
    \/ CleanupExpiredStates
    \/ \E id \in {1}, st \in {StatusActive, StatusSuspended} :
            UpdateUser(id, "", st, NoInt, NoInt)

SpecLogin == InitLogin /\ [][NextLogin]_vars

----------------------------------------------------------------------------
(* Claims on the login specification *)

\* C1: of all the ValidateState calls on a state that CreateState produced, at
\* most one returns true; when such a call is made before the state expires,
\* exactly one call has returned true.  A state that was never produced is never
\* validated.
C1_StateConsumedOnce ==
    \A s \in StateStrings :
        /\ validateLog[s].ok <= 1
        /\ validateLog[s].live => validateLog[s].ok = 1
        /\ (\A r \in issued : r.state # s) => validateLog[s].ok = 0

\* A callback replays a state that an earlier call consumed, before its expiry,
\* and is refused.
C1_Witness ==
    /\ cbResp.op = "Callback" /\ cbResp.match /\ cbResp.status = 400
    /\ ~cbResp.wasLive
    /\ validateLog[cbResp.query].ok = 1
    /\ \E r \in issued : r.state = cbResp.query /\ now < r.expires_at

\* C2 as stated: a callback creates a session only for a matching cookie and
\* query state that this request consumed live, no provider error, a code, and an
\* active user; every callback that creates no session answers 400 or 403.
C2_Original ==
    cbResp.op = "Callback" =>
        /\ cbResp.session # NoId =>
              /\ cbResp.match /\ cbResp.wasLive
              /\ ~cbResp.error /\ cbResp.code
              /\ cbResp.userStatus = StatusActive
        /\ cbResp.session = NoId => cbResp.status \in {400, 403}

\* C2 as amended: a callback creates a session, answering 200, only for a matching
\* cookie and query state that this request consumed live (the row is gone), no
\* provider error, a code, and an active user.  A callback that creates no session
\* answers 400, 403 or 500: 400 whenever the state is absent, mismatched or not
\* live, a provider error is given or the code is missing; 403 exactly when the
\* resolved user is not active; 500 only after the state was consumed, when the
\* exchange, the user info or the user lookup failed.
C2_CallbackSession ==
    cbResp.op = "Callback" =>
        /\ cbResp.session # NoId =>
              /\ cbResp.status = 200
              /\ cbResp.match /\ cbResp.wasLive
              /\ \A r \in oauth_states : r.state # cbResp.query
              /\ ~cbResp.error /\ cbResp.code
              /\ cbResp.userStatus = StatusActive
              /\ \E x \in sessions : x.id = cbResp.session
        /\ cbResp.session = NoId => cbResp.status \in {400, 403, 500}
        /\ (~cbResp.match \/ ~cbResp.wasLive \/ cbResp.error \/ ~cbResp.code)
              => cbResp.status = 400
        /\ cbResp.status = 403 <=> cbResp.userStatus = StatusSuspended
        /\ cbResp.status = 500 =>
              /\ cbResp.match /\ cbResp.wasLive /\ ~cbResp.error /\ cbResp.code
              /\ \A r \in oauth_states : r.state # cbResp.query

\* A callback has created a session for an active user.
C2_Witness ==
    /\ cbResp.op = "Callback" /\ cbResp.status = 200
    /\ \E x \in sessions : x.id = cbResp.session /\ GetUserByID(x.user_id).status = StatusActive

----------------------------------------------------------------------------
(* Feature registry *)

\* A nil *Feature.
NilFeature == [id |-> NoId, slug |-> "", parent_id |-> NoId, admin_only |-> FALSE]

GetFeatureBySlug(slug) ==
    IF \E f \in features : f.slug = slug
    THEN CHOOSE f \in features : f.slug = slug
    ELSE NilFeature

GetFeatureByID(id) ==
    IF \E f \in features : f.id = id
    THEN CHOOSE f \in features : f.id = id
    ELSE NilFeature

\* SELECT ... WHERE slug IN (...): each matching row once, however often its slug
\* is listed.
GetFeaturesBySlugs(slugs) ==
    { f \in features : \E i \in DOMAIN slugs : slugs[i] = f.slug }

\* The loop of GetFeatureAncestors from currentID on, given the ids it has
\* already appended.  The loop has no exit on a repeated id: on a cyclic parent
\* chain it appends for ever and the call does not return (diverges).
RECURSIVE AncestorsFrom(_, _)
AncestorsFrom(currentID, seen) ==
    IF currentID = NoId \/ GetFeatureByID(currentID).id = NoId
    THEN [diverges |-> FALSE, ancestors |-> <<>>]
    ELSE IF currentID \in seen
    THEN [diverges |-> TRUE, ancestors |-> <<>>]
    ELSE LET rest == AncestorsFrom(GetFeatureByID(currentID).parent_id,
                                   seen \cup {currentID})
         IN  [diverges |-> rest.diverges,
              ancestors |-> <<currentID>> \o rest.ancestors]

GetFeatureAncestors(featureID) == AncestorsFrom(featureID, {})

\* TokenHasFeatureAccess: whether the call returns, and what.
TokenHasFeatureAccess(tokenFeatureIDs, targetFeatureSlug) ==
    LET targetFeature == GetFeatureBySlug(targetFeatureSlug)
        found == GetFeatureAncestors(targetFeature.id)
    IN  IF targetFeature.id = NoId THEN [returns |-> TRUE, access |-> FALSE]
        ELSE IF targetFeature.id \in tokenFeatureIDs THEN [returns |-> TRUE, access |-> TRUE]
        ELSE IF found.diverges THEN [returns |-> FALSE, access |-> FALSE]
        ELSE [returns |-> TRUE,
              access |-> \E i \in DOMAIN found.ancestors :
                             found.ancestors[i] \in tokenFeatureIDs]

\* INSERT INTO features: refused on a slug in use (UNIQUE) and, under enforced
\* foreign keys, on a parent that does not exist.
CreateFeatureRefused(slug, parentID) ==
    \/ \E f \in features : f.slug = slug
    \/ foreignKeys /\ parentID # NoId /\ GetFeatureByID(parentID).id = NoId

\* UPDATE features SET parent_id = ?: refused under enforced foreign keys when the
\* row exists and the parent does not.
UpdateParentRefused(id, parentID) ==
    /\ parentID # NoId
    /\ foreignKeys
    /\ GetFeatureByID(id).id # NoId
    /\ GetFeatureByID(parentID).id = NoId

\* The features table after FeatureRegistry.UpdateFeature: one UPDATE per field
\* given (NoId for no parentID, <<>> for no adminOnly); an update after a refused
\* one is not made.
UpdateFeatureRows(id, parentID, adminOnly) ==
    LET r1 == IF parentID # NoId /\ ~UpdateParentRefused(id, parentID)
              THEN SetField(features, id, "parent_id", parentID) ELSE features
        r2 == IF adminOnly # <<>> /\ ~UpdateParentRefused(id, parentID)
              THEN SetField(r1, id, "admin_only", adminOnly[1]) ELSE r1
    IN  r2

\* The features table after DELETE FROM features WHERE id = ?; under enforced
\* foreign keys the children of the row get a NULL parent (ON DELETE SET NULL).
DeleteFeatureRows(id) ==
    { IF foreignKeys /\ f.parent_id = id THEN [f EXCEPT !.parent_id = NoId] ELSE f :
        f \in { g \in features : g.id # id } }

\* token_features after the same DELETE: under enforced foreign keys the scope
\* rows of the feature go with it (ON DELETE CASCADE).
DeleteFeatureScopes(id) ==
    IF foreignKeys /\ GetFeatureByID(id).id # NoId
    THEN { r \in token_features : r.feature_id # id }
    ELSE token_features

\* A table with a feature_id column declared ON DELETE CASCADE, after the same
\* DELETE (group_feature_quotas, user_quota_overrides, usage_log).
DeleteFeatureCascade(rows, id) ==
    IF foreignKeys /\ GetFeatureByID(id).id # NoId
    THEN { r \in rows : r.feature_id # id }
    ELSE rows

----------------------------------------------------------------------------
(* Token service: primitives *)

TokenPrefix == "osduth_"

\* A raw token is the pair of its first len(TokenPrefix) characters and the rest.
HasPrefix(rawToken) == rawToken[1] = TokenPrefix

\* sha256 then hex: a tagged copy of its argument (no two tokens of the model collide).
hashToken(token) == <<"sha256", token>>

\* GenerateToken, for the body the random source yields.
GenerateToken(body) ==
    [rawToken |-> <<TokenPrefix, body>>, tokenHash |-> hashToken(<<TokenPrefix, body>>)]

\* strings.TrimSpace on the labels of the model.
TrimSpace(label) == IF label = " " THEN "" ELSE label

\* net.ParseIP on the address texts of the model: the 16 bytes as three numbers
\* (bytes 0-9, bytes 10-11, bytes 12-15 abbreviated), <<>> for nil.  An IPv4 text
\* parses to the IPv4-mapped form.
ParseIP(ip) ==
    CASE ip = "192.0.2.1" -> <<0, 65535, 1>>
      [] ip = "::ffff:192.0.2.1" -> <<0, 65535, 1>>
      [] ip = "192.0.2.2" -> <<0, 65535, 2>>
      [] ip = "2001:db8::1" -> <<8193, 0, 1>>
      [] ip = "2001:db8:0:0:0:0:0:1" -> <<8193, 0, 1>>
      [] OTHER -> <<>>

\* net.IP.String: dotted quad for an IPv4-mapped address, compressed IPv6 otherwise.
IPString(addr) ==
    IF addr[1] = 0 /\ addr[2] = 65535
    THEN (IF addr[3] = 1 THEN "192.0.2.1" ELSE "192.0.2.2")
    ELSE "2001:db8::1"

\* Mutant of CanonicalizeIP: the text is kept as it was given.
CanonicalizeIPVerbatim(ip) == ip

\* CanonicalizeIP: "" for an error.
CanonicalizeIP(ip) == IF ParseIP(ip) = <<>> THEN "" ELSE IPString(ParseIP(ip))

\* CanonicalizeIPs: the canonical forms in order; ok is false when one is invalid.
CanonicalizeIPs(ips) ==
    [ok |-> \A i \in DOMAIN ips : CanonicalizeIP(ips[i]) # "",
     ips |-> [i \in DOMAIN ips |-> CanonicalizeIP(ips[i])]]

\* Mutant of GetUserTokenCount: the expired tokens are not counted.
GetUserTokenCountUnexpired(userID) ==
    Cardinality({ t \in tokens : /\ t.user_id = userID /\ t.revoked_at = NoInt
                                  /\ (t.expires_at = NoInt \/ t.expires_at >= now) })

\* SELECT COUNT(*) FROM tokens WHERE user_id = ? AND revoked_at IS NULL
GetUserTokenCount(userID) ==
    Cardinality({ t \in tokens : t.user_id = userID /\ t.revoked_at = NoInt })

\* The checks CreateAdminToken makes before it generates the token, in order;
\* "" when all pass.
CreateAdminTokenError(userID, label, featureSlugs, allowedIPs) ==
    IF TrimSpace(label) = "" THEN "LabelRequired"
    ELSE IF GetFeaturesBySlugs(featureSlugs) = {} THEN "FeatureRequired"
    ELSE IF Cardinality(GetFeaturesBySlugs(featureSlugs)) # Len(featureSlugs)
    THEN "FeatureUnknown"
    ELSE IF ~CanonicalizeIPs(allowedIPs).ok THEN "IpInvalid"
    ELSE ""

\* Mutant of CreateUserTokenError: a list with an admin-only feature passes when
\* it also names a feature that is not admin-only.
CreateUserTokenErrorAllAdminOnly(userID, label, featureSlugs, allowedIPs) ==
    IF TrimSpace(label) = "" THEN "LabelRequired"
    ELSE IF GetUserByID(userID).id = NoId THEN "UserNotFound"
    ELSE IF GetUserTokenCount(userID) >= GetUserByID(userID).max_tokens
    THEN "TokenQuotaExhausted"
    ELSE IF GetFeaturesBySlugs(featureSlugs) = {} THEN "FeatureRequired"
    ELSE IF Cardinality(GetFeaturesBySlugs(featureSlugs)) # Len(featureSlugs)
    THEN "FeatureUnknown"
    ELSE IF \A f \in GetFeaturesBySlugs(featureSlugs) : f.admin_only
    THEN "FeatureAdminOnly"
    ELSE IF ~CanonicalizeIPs(allowedIPs).ok THEN "IpInvalid"
    ELSE ""

\* Mutant of CreateUserTokenError: the slugs are resolved before the quota is
\* counted.
CreateUserTokenErrorSlugsFirst(userID, label, featureSlugs, allowedIPs) ==
    IF TrimSpace(label) = "" THEN "LabelRequired"
    ELSE IF GetUserByID(userID).id = NoId THEN "UserNotFound"
    ELSE IF GetFeaturesBySlugs(featureSlugs) = {} THEN "FeatureRequired"
    ELSE IF Cardinality(GetFeaturesBySlugs(featureSlugs)) # Len(featureSlugs)
    THEN "FeatureUnknown"
    ELSE IF GetUserTokenCount(userID) >= GetUserByID(userID).max_tokens
    THEN "TokenQuotaExhausted"
    ELSE IF \E f \in GetFeaturesBySlugs(featureSlugs) : f.admin_only
    THEN "FeatureAdminOnly"
    ELSE IF ~CanonicalizeIPs(allowedIPs).ok THEN "IpInvalid"
    ELSE ""

\* The checks CreateUserToken makes before it generates the token, in order.
CreateUserTokenError(userID, label, featureSlugs, allowedIPs) ==
    IF TrimSpace(label) = "" THEN "LabelRequired"
    ELSE IF GetUserByID(userID).id = NoId THEN "UserNotFound"
    ELSE IF GetUserTokenCount(userID) >= GetUserByID(userID).max_tokens
    THEN "TokenQuotaExhausted"
    ELSE IF GetFeaturesBySlugs(featureSlugs) = {} THEN "FeatureRequired"
    ELSE IF Cardinality(GetFeaturesBySlugs(featureSlugs)) # Len(featureSlugs)
    THEN "FeatureUnknown"
    ELSE IF \E f \in GetFeaturesBySlugs(featureSlugs) : f.admin_only
    THEN "FeatureAdminOnly"
    ELSE IF ~CanonicalizeIPs(allowedIPs).ok THEN "IpInvalid"
    ELSE ""

\* The transaction of createToken fails, and is rolled back, when under enforced
\* foreign keys the user row is missing, or when two allowed IPs have the same
\* canonical form (PRIMARY KEY (token_id, ip_address)).
createTokenRefused(userID, allowedIPs) ==
    \/ foreignKeys /\ ~(\E u \in users : u.id = userID)
    \/ \E i, j \in DOMAIN allowedIPs : i # j /\ allowedIPs[i] = allowedIPs[j]

\* INSERT INTO tokens: the next AUTOINCREMENT id (no token row is ever deleted).
NewTokenRow(userID, tokenHash, label, adminCreated, expiresAt) ==
    [id |-> Cardinality(tokens) + 1, user_id |-> userID, token_hash |-> tokenHash,
     label |-> label, admin_created |-> adminCreated, expires_at |-> expiresAt,
     revoked_at |-> NoInt]

----------------------------------------------------------------------------
(* Token service: operations *)

\* Mutant of createTokenTx: no rollback, the rows inserted before a refused
\* INSERT of an allowed IP stay.
createTokenTxNoRollback(row, feats, canon, result) ==
    LET reached == result = "ok" \/ (result = "StoreError" /\ \E u \in users : u.id = row.user_id)
    IN  [tokens |-> IF reached THEN tokens \cup {row} ELSE tokens,
         token_features |->
            IF reached
            THEN token_features \cup { [token_id |-> row.id, feature_id |-> f.id] : f \in feats }
            ELSE token_features,
         token_allowed_ips |->
            IF result = "ok"
            THEN token_allowed_ips \cup
                    { [token_id |-> row.id, ip_address |-> canon[i]] : i \in DOMAIN canon }
            ELSE token_allowed_ips]

\* The three tables after the transaction of createToken: every INSERT
\* committed together, or (a refused INSERT, the deferred Rollback) none.
createTokenTx(row, feats, canon, result) ==
    IF result = "ok"
    THEN [tokens |-> tokens \cup {row},
          token_features |->
             token_features \cup { [token_id |-> row.id, feature_id |-> f.id] : f \in feats },
          token_allowed_ips |->
             token_allowed_ips \cup
                { [token_id |-> row.id, ip_address |-> canon[i]] : i \in DOMAIN canon }]
    ELSE [tokens |-> tokens, token_features |-> token_features,
          token_allowed_ips |-> token_allowed_ips]

\* The rest of an issuance once the label, the features and the IPs are settled:
\* err is the failed check ("" for none); GenerateToken takes what the random
\* source yields next (nothing is drawn when a check failed), then the transaction
\* of createToken inserts the token row, its scope rows and its IP rows, or
\* nothing.
createToken(op, userID, label, featureSlugs, allowedIPs, expiresAt, adminCreated, err) ==
    LET gen == GenerateToken(Head(entropy))
        feats == GetFeaturesBySlugs(featureSlugs)
        canon == CanonicalizeIPs(allowedIPs).ips
        row == NewTokenRow(userID, gen.tokenHash, TrimSpace(label), adminCreated, expiresAt)
        result == IF err # "" THEN err
                  ELSE IF createTokenRefused(userID, canon) THEN "StoreError"
                  ELSE "ok"
    IN  /\ err = "" => entropy # <<>>
        /\ entropy' = IF err = "" THEN Tail(entropy) ELSE entropy
        /\ tokens' = createTokenTx(row, feats, canon, result).tokens
        /\ token_features' = createTokenTx(row, feats, canon, result).token_features
        /\ token_allowed_ips' = createTokenTx(row, feats, canon, result).token_allowed_ips
        /\ minted' = IF result = "ok"
                     THEN minted \cup
                            { [raw |-> gen.rawToken, id |-> row.id, user_id |-> userID,
                               feature_ids |-> { f.id : f \in feats }] }
                     ELSE minted
        /\ tkResp' = [op |-> op,
                      req |-> [user |-> userID, label |-> label, slugs |-> featureSlugs,
                               ips |-> allowedIPs],
                      out |-> [result |-> result,
                               token |-> IF result = "ok" THEN row.id ELSE NoId]]
        /\ UNCHANGED <<now, foreignKeys, quotaVars, usageVars, groups, academic_domains, users, loginVars,
                       features, featureSeq>>

\* TokenStore.CreateUserToken (POST /auth/tokens for the user of the session).
CreateUserToken(userID, label, featureSlugs, allowedIPs, expiresAt) ==
    /\ createToken("CreateUserToken", userID, label, featureSlugs, allowedIPs, expiresAt,
                   FALSE, CreateUserTokenError(userID, label, featureSlugs, allowedIPs))
    /\ UNCHANGED issuing

\* TokenStore.CreateAdminToken (POST /admin/users/:id/tokens).
CreateAdminToken(userID, label, featureSlugs, allowedIPs, expiresAt) ==
    /\ createToken("CreateAdminToken", userID, label, featureSlugs, allowedIPs, expiresAt,
                   TRUE, CreateAdminTokenError(userID, label, featureSlugs, allowedIPs))
    /\ UNCHANGED issuing

\* CreateUserToken up to GenerateToken, as the step of one of several requests
\* served at the same time (gin runs every request in a goroutine of its own,
\* and TokenStore holds no lock): the checks, the count of the user's tokens
\* among them, are separate statements on the connection pool and end before
\* createToken begins its transaction.  g names the request.
CreateUserTokenChecks(g, userID, label, featureSlugs, allowedIPs, expiresAt) ==
    /\ ~(\E r \in issuing : r.g = g)
    /\ CreateUserTokenError(userID, label, featureSlugs, allowedIPs) = ""
    /\ issuing' = issuing \cup { [g |-> g, user |-> userID, label |-> label,
                                   slugs |-> featureSlugs, ips |-> allowedIPs,
                                   expires |-> expiresAt] }
    /\ tkResp' = NoTkResp
    /\ UNCHANGED <<now, foreignKeys, quotaVars, usageVars, groups, academic_domains, users,
                   loginVars, tokenTables>>

\* CreateUserToken from GenerateToken on: the transaction of createToken for a
\* request that has passed the checks.
CreateUserTokenInsert(g) ==
    \E r \in issuing :
        /\ r.g = g
        /\ createToken("CreateUserToken", r.user, r.label, r.slugs, r.ips, r.expires,
                       FALSE, "")
        /\ issuing' = issuing \ {r}

\* Mutant of getTokenFeatureIDs: the feature ids of every scope row.
getTokenFeatureIDsAll(tokenID) == { r.feature_id : r \in token_features }

\* SELECT feature_id FROM token_features WHERE token_id = ?
getTokenFeatureIDs(tokenID) ==
    { r.feature_id : r \in { x \in token_features : x.token_id = tokenID } }

\* SELECT ip_address FROM token_allowed_ips WHERE token_id = ?
getTokenAllowedIPs(tokenID) ==
    { r.ip_address : r \in { x \in token_allowed_ips : x.token_id = tokenID } }

\* Mutant of ValidateTokenResult: the expiry is looked at before the revocation.
ValidateTokenResultExpiryFirst(rawToken) ==
    LET rows == { t \in tokens : t.token_hash = hashToken(rawToken) }
        t == CHOOSE t \in rows : TRUE
        user == GetUserByID(t.user_id)
        failed(e) == [result |-> e, token |-> NoId, userId |-> NoId,
                      featureIds |-> {}, allowedIPs |-> {}]
    IN  IF ~HasPrefix(rawToken) THEN failed("TokenFormatInvalid")
        ELSE IF rows = {} THEN failed("TokenUnknown")
        ELSE IF t.expires_at # NoInt /\ t.expires_at < now THEN failed("TokenExpired")
        ELSE IF t.revoked_at # NoInt THEN failed("TokenRevoked")
        ELSE IF user.id = NoId THEN failed("UserNotFound")
        ELSE IF user.status # StatusActive THEN failed("UserNotActive")
        ELSE [result |-> "ok", token |-> t.id, userId |-> user.id,
              featureIds |-> getTokenFeatureIDs(t.id),
              allowedIPs |-> getTokenAllowedIPs(t.id)]

\* What ValidateToken returns: the error, or the ValidatedToken.
ValidateTokenResult(rawToken) ==
    LET rows == { t \in tokens : t.token_hash = hashToken(rawToken) }
        t == CHOOSE t \in rows : TRUE
        user == GetUserByID(t.user_id)
        failed(e) == [result |-> e, token |-> NoId, userId |-> NoId,
                      featureIds |-> {}, allowedIPs |-> {}]
    IN  IF ~HasPrefix(rawToken) THEN failed("TokenFormatInvalid")
        ELSE IF rows = {} THEN failed("TokenUnknown")
        ELSE IF t.revoked_at # NoInt THEN failed("TokenRevoked")
        ELSE IF t.expires_at # NoInt /\ t.expires_at < now THEN failed("TokenExpired")
        ELSE IF user.id = NoId THEN failed("UserNotFound")
        ELSE IF user.status # StatusActive THEN failed("UserNotActive")
        ELSE [result |-> "ok", token |-> t.id, userId |-> user.id,
              featureIds |-> getTokenFeatureIDs(t.id),
              allowedIPs |-> getTokenAllowedIPs(t.id)]

\* TokenStore.ValidateToken
ValidateToken(rawToken) ==
    /\ tkResp' = [op |-> "ValidateToken", req |-> [raw |-> rawToken],
                  out |-> ValidateTokenResult(rawToken)]
    /\ UNCHANGED <<now, foreignKeys, issuing, quotaVars, usageVars, groups, academic_domains, users, loginVars, tokenTables>>

\* Mutant of RevokeTokenRows: the owner is not compared.
RevokeTokenRowsAnyOwner(tokenID, userID) ==
    { t \in tokens : t.id = tokenID /\ t.revoked_at = NoInt }

\* The rows the UPDATE of RevokeToken matches.
RevokeTokenRows(tokenID, userID) ==
    { t \in tokens : t.id = tokenID /\ t.user_id = userID /\ t.revoked_at = NoInt }

\* The rows the UPDATE of AdminRevokeToken matches.
AdminRevokeTokenRows(tokenID) ==
    { t \in tokens : t.id = tokenID /\ t.revoked_at = NoInt }

\* UPDATE tokens SET revoked_at = now on the matched rows, and the answer.
Revoke(op, tokenID, userID, matched) ==
    /\ tokens' = { IF t \in matched THEN [t EXCEPT !.revoked_at = now] ELSE t : t \in tokens }
    /\ tkResp' = [op |-> op, req |-> [token |-> tokenID, user |-> userID],
                  out |-> [result |-> IF matched = {} THEN "TokenNotFoundOrAlreadyRevoked"
                                      ELSE "ok"]]
    /\ UNCHANGED <<now, foreignKeys, issuing, quotaVars, usageVars, groups, academic_domains, users, loginVars,
                   features, featureSeq, token_features, token_allowed_ips, entropy, minted>>

\* TokenStore.RevokeToken (DELETE /auth/tokens/:id for the user of the session).
RevokeToken(tokenID, userID) ==
    Revoke("RevokeToken", tokenID, userID, RevokeTokenRows(tokenID, userID))

\* TokenStore.AdminRevokeToken (DELETE /admin/tokens/:id).
AdminRevokeToken(tokenID) ==
    Revoke("AdminRevokeToken", tokenID, NoId, AdminRevokeTokenRows(tokenID))

----------------------------------------------------------------------------
(* Catalog and group administration *)

\* POST /admin/features
CreateFeature(slug, parentID, adminOnly) ==
    /\ IF CreateFeatureRefused(slug, parentID)
       THEN UNCHANGED <<features, featureSeq>>
       ELSE /\ features' = features \cup
                    {[id |-> featureSeq + 1, slug |-> slug, parent_id |-> parentID,
                      admin_only |-> adminOnly]}
            /\ featureSeq' = featureSeq + 1
    /\ tkResp' = [op |-> "CreateFeature", req |-> [slug |-> slug],
                  out |-> [result |-> IF CreateFeatureRefused(slug, parentID)
                                      THEN "StoreError" ELSE "ok"]]
    /\ UNCHANGED <<now, foreignKeys, issuing, quotaVars, usageVars, groups, academic_domains, users, loginVars,
                   tokens, token_features, token_allowed_ips, entropy, minted>>

\* PATCH /admin/features/:id
UpdateFeature(id, parentID, adminOnly) ==
    /\ features' = UpdateFeatureRows(id, parentID, adminOnly)
    /\ tkResp' = [op |-> "UpdateFeature", req |-> [id |-> id],
                  out |-> [result |-> IF UpdateParentRefused(id, parentID)
                                      THEN "StoreError" ELSE "ok"]]
    /\ UNCHANGED <<now, foreignKeys, issuing, quotaVars, usageVars, groups, academic_domains, users, loginVars,
                   featureSeq, tokens, token_features, token_allowed_ips, entropy, minted>>

\* DELETE /admin/features/:id
DeleteFeature(id) ==
    /\ features' = DeleteFeatureRows(id)
    /\ token_features' = DeleteFeatureScopes(id)
    /\ group_feature_quotas' = DeleteFeatureCascade(group_feature_quotas, id)
    /\ user_quota_overrides' = DeleteFeatureCascade(user_quota_overrides, id)
    /\ usage_log' = DeleteFeatureCascade(usage_log, id)
    /\ tkResp' = [op |-> "DeleteFeature", req |-> [id |-> id], out |-> [result |-> "ok"]]
    /\ UNCHANGED <<now, foreignKeys, issuing, cleanerVars, groups, academic_domains, users, loginVars,
                   featureSeq, tokens, token_allowed_ips, entropy, minted,
                   usageSeq, recordSeq, buffer, batch, tickerC, cancelled,
               writerPc>>

\* DELETE FROM groups WHERE id = ?: refused under enforced foreign keys while a
\* user row refers to the group.
DeleteGroupRefused(id) ==
    foreignKeys /\ \E u \in users : u.group_id = id

\* DELETE /admin/groups/:id
DeleteGroup(id) ==
    /\ groups' = IF DeleteGroupRefused(id) THEN groups ELSE { g \in groups : g.id # id }
    /\ tkResp' = [op |-> "DeleteGroup", req |-> [id |-> id],
                  out |-> [result |-> IF DeleteGroupRefused(id) THEN "StoreError" ELSE "ok"]]
    /\ group_feature_quotas' =
          IF foreignKeys /\ ~DeleteGroupRefused(id)
          THEN { q \in group_feature_quotas : q.group_id # id }
          ELSE group_feature_quotas
    /\ UNCHANGED <<now, foreignKeys, issuing, usageVars, academic_domains, users, loginVars, tokenTables,
                   user_quota_overrides>>

----------------------------------------------------------------------------
(* The issuance specification: user-path and admin-path issuance, revocation, *)
(* a change of maxTokens and of a feature's admin-only flag, over a database  *)
(* in which two users have signed up.                                         *)

\* The users table after alice (academic domain) and bob have logged in once.
SignedUpUsers ==
    { [id |-> 1, email |-> <<"alice", "cs.duth.gr">>, role |-> RoleUser,
       status |-> StatusActive, group_id |-> 2, max_tokens |-> DefaultMaxTokens],
      [id |-> 2, email |-> <<"bob", "example.org">>, role |-> RoleUser,
       status |-> StatusActive, group_id |-> 1, max_tokens |-> DefaultMaxTokens] }

SignedUpIdentities ==
    { [user_id |-> 1, provider |-> ProviderGoogle, provider_id |-> "42"],
      [user_id |-> 2, provider |-> ProviderGoogle, provider_id |-> "43"] }

\* The state shared by the token specifications: the migrated database with the
\* two users, no token yet, the bodies the random source will yield, and the
\* clock at 1 (an expiry of 0 is in the past).
InitTokens ==
    /\ now = 1
    /\ foreignKeys \in BOOLEAN
    /\ issuing = {}
    /\ groups = SeedGroups
    /\ academic_domains = SeedAcademicDomains
    /\ users = SignedUpUsers
    /\ oauth_identities = SignedUpIdentities
    /\ oauth_states = {}
    /\ sessions = {}
    /\ sessionSeq = 0
    /\ issued = {}
    /\ validateLog = [s \in StateStrings \cup {""} |-> [ok |-> 0, live |-> FALSE]]
    /\ cbResp = NoResp
    /\ features = SeedFeatures
    /\ featureSeq = Cardinality(SeedFeatures)
    /\ tokens = {}
    /\ token_features = {}
    /\ token_allowed_ips = {}
    /\ entropy = <<"a", "b">>
    /\ minted = {}
    /\ tkResp = NoTkResp
    /\ group_feature_quotas = SeedGroupQuotas
    /\ user_quota_overrides = {}
    /\ usage_log = {}
    /\ usageSeq = 0
    /\ recordSeq = 0
    /\ buffer = <<>>
    /\ batch = <<>>
    /\ tickerC = FALSE
    /\ cancelled = FALSE
    /\ writerPc = "select"
    /\ cleanupC = FALSE
    /\ cleanerPc = "select"

\* The issuance requests of the model: one plain request and its variations.
PlainRequest ==
    [label |-> "cli", slugs |-> <<"maps">>, ips |-> <<"192.0.2.1">>, expires |-> NoInt]

IssueRequests ==
    { PlainRequest,
      [PlainRequest EXCEPT !.expires = 0],
      [PlainRequest EXCEPT !.label = " "],
      [PlainRequest EXCEPT !.slugs = <<>>],
      [PlainRequest EXCEPT !.slugs = <<"maps", "schedule">>],
      [PlainRequest EXCEPT !.ips = <<"not-an-ip">>],
      [PlainRequest EXCEPT !.ips = <<"192.0.2.1", "::ffff:192.0.2.1">>],
      [PlainRequest EXCEPT !.label = "", !.slugs = <<"maps", "schedule">>],
      [PlainRequest EXCEPT !.slugs = <<"schedule", "nope">>],
      [PlainRequest EXCEPT !.slugs = <<"maps", "schedule">>, !.ips = <<"not-an-ip">>] }

NextIssue ==
    \/ \E u \in {1, 3}, r \in IssueRequests :
            CreateUserToken(u, r.label, r.slugs, r.ips, r.expires)
    \/ \E u \in {1, 3}, r \in IssueRequests :
            CreateAdminToken(u, r.label, r.slugs, r.ips, r.expires)
    \/ \E t \in {1, 2} : AdminRevokeToken(t)
    \/ \E m \in {0, 1} : UpdateUser(1, "", "", NoInt, m)
    \/ UpdateFeature(2, NoId, <<TRUE>>)

SpecIssue == InitTokens /\ [][NextIssue]_vars

----------------------------------------------------------------------------
(* Claims on the issuance specification.  In it every step is one request,   *)
(* and tkResp' names the request of the step.                                *)

\* C5: for a user the store loads and a label that is not blank, user-path
\* issuance answers TokenQuotaExhausted exactly when the number of the user's
\* non-revoked tokens (expired and admin-created ones included) is at least the
\* user's max_tokens when the request arrives, and then no token, scope or IP row
\* is created; with max_tokens = 0 every such issuance is rejected.
C5_QuotaExhausted ==
    [][ tkResp'.op = "CreateUserToken"
        /\ tkResp'.req.label \notin {"", " "}
        /\ (\E u \in users : u.id = tkResp'.req.user /\ \E g \in groups : g.id = u.group_id)
        => LET u == CHOOSE x \in users : x.id = tkResp'.req.user
               count == Cardinality({ t \in tokens :
                            t.user_id = u.id /\ t.revoked_at = NoInt })
           IN  /\ tkResp'.out.result = "TokenQuotaExhausted" <=> count >= u.max_tokens
               /\ count >= u.max_tokens =>
                      UNCHANGED <<tokens, token_features, token_allowed_ips>>
               /\ u.max_tokens = 0 => tkResp'.out.result = "TokenQuotaExhausted"
      ]_vars

\* A user-path issuance has been refused for the quota while the only token the
\* user holds is admin-created, expired and not revoked.
C5_Witness ==
    /\ tkResp.op = "CreateUserToken" /\ tkResp.out.result = "TokenQuotaExhausted"
    /\ \E u \in users : u.id = tkResp.req.user /\ u.max_tokens = 1
    /\ \E t \in tokens : /\ t.user_id = tkResp.req.user /\ t.revoked_at = NoInt
                         /\ t.admin_created /\ t.expires_at # NoInt /\ t.expires_at < now
    /\ Cardinality({ t \in tokens : t.user_id = tkResp.req.user }) = 1

\* C6 as stated: every user-path issuance in which a requested slug resolves to
\* an admin-only feature answers FeatureAdminOnly and creates no token, scope or
\* IP row.
C6_Original ==
    [][ tkResp'.op = "CreateUserToken"
        /\ (\E i \in DOMAIN tkResp'.req.slugs : \E f \in features :
                f.slug = tkResp'.req.slugs[i] /\ f.admin_only)
        => /\ tkResp'.out.result = "FeatureAdminOnly"
           /\ UNCHANGED <<tokens, token_features, token_allowed_ips>>
      ]_vars

\* C6 as amended: a user-path issuance in which a requested slug resolves to an
\* admin-only feature never succeeds and creates no token, scope or IP row; it
\* answers FeatureAdminOnly when the checks made before it pass (label not blank,
\* user loaded, quota not exhausted, every slug resolved), and the error of the
\* first of those checks that fails otherwise.  So a token created through the
\* user path has no admin-only feature in its scope when it is created.
C6_NoAdminOnlyScope ==
    [][ tkResp'.op = "CreateUserToken" =>
        LET req == tkResp'.req
            res == tkResp'.out.result
            adminOnly == \E i \in DOMAIN req.slugs : \E f \in features :
                             f.slug = req.slugs[i] /\ f.admin_only
            blank == req.label \in {"", " "}
            loaded == \E u \in users : u.id = req.user /\ \E g \in groups : g.id = u.group_id
            full == \E u \in users : /\ u.id = req.user
                        /\ Cardinality({ t \in tokens : t.user_id = u.id /\ t.revoked_at = NoInt })
                               >= u.max_tokens
            resolved == \A i \in DOMAIN req.slugs : \E f \in features : f.slug = req.slugs[i]
        IN  /\ adminOnly =>
                /\ res # "ok"
                /\ UNCHANGED <<tokens, token_features, token_allowed_ips>>
                /\ res = "FeatureAdminOnly" <=> ~blank /\ loaded /\ ~full /\ resolved
                /\ blank => res = "LabelRequired"
                /\ ~blank /\ ~loaded => res = "UserNotFound"
                /\ ~blank /\ loaded /\ full => res = "TokenQuotaExhausted"
                /\ ~blank /\ loaded /\ ~full /\ ~resolved => res = "FeatureUnknown"
            /\ \A t \in tokens' \ tokens : \A r \in token_features' :
                   r.token_id = t.id => \A f \in features : f.id = r.feature_id => ~f.admin_only
      ]_vars

\* A user-path issuance naming an admin-only feature next to a plain one has
\* been refused as FeatureAdminOnly.
C6_Witness ==
    /\ tkResp.op = "CreateUserToken" /\ tkResp.out.result = "FeatureAdminOnly"
    /\ \E i, j \in DOMAIN tkResp.req.slugs :
          /\ GetFeatureBySlug(tkResp.req.slugs[i]).admin_only
          /\ GetFeatureBySlug(tkResp.req.slugs[j]).id # NoId
          /\ ~GetFeatureBySlug(tkResp.req.slugs[j]).admin_only

\* C8 as stated: admin-path issuance answers LabelRequired on a blank label,
\* else UserNotFound when the target user does not exist, else FeatureUnknown
\* when a slug does not resolve, else IpInvalid on an invalid IP, whatever the
\* quota and the admin-only flags; a token it creates has admin_created = true,
\* one the user path creates has admin_created = false.
C8_AdminPathChecks ==
    [][ /\ tkResp'.op = "CreateAdminToken" =>
            LET req == tkResp'.req
                res == tkResp'.out.result
                blank == req.label \in {"", " "}
                exists == \E u \in users : u.id = req.user
                resolved == /\ req.slugs # <<>>
                            /\ \A i \in DOMAIN req.slugs :
                                  \E f \in features : f.slug = req.slugs[i]
                valid == \A i \in DOMAIN req.ips : req.ips[i] # "not-an-ip"
            IN  /\ blank => res = "LabelRequired"
                /\ ~blank /\ ~exists => res = "UserNotFound"
                /\ ~blank /\ exists /\ ~resolved => res \in {"FeatureUnknown", "FeatureRequired"}
                /\ ~blank /\ exists /\ resolved /\ ~valid => res = "IpInvalid"
                /\ ~blank /\ exists /\ resolved /\ valid => res = "ok"
                /\ res # "ok" => UNCHANGED <<tokens, token_features, token_allowed_ips>>
                /\ \A t \in tokens' \ tokens : t.admin_created
        /\ tkResp'.op = "CreateUserToken" => \A t \in tokens' \ tokens : ~t.admin_created
      ]_vars

----------------------------------------------------------------------------
(* The validation specification: issuance, validation, revocation by the     *)
(* owner and by an admin, suspension, deletion of a feature and of a group,  *)
(* and the clock.                                                            *)

\* The raw tokens presented: the two the model can issue, one never issued and
\* one without the prefix.
RawTokens ==
    { <<TokenPrefix, "a">>, <<TokenPrefix, "b">>, <<TokenPrefix, "zz">>, <<"", "a">> }

NextValidate ==
    \/ Tick
    \/ CreateUserToken(1, "cli", <<"maps">>, <<>>, NoInt)
    \/ CreateUserToken(1, "cli", <<"maps", "schedule">>, <<"192.0.2.1">>, 1)
    \/ CreateUserToken(2, "cli", <<"schedule">>, <<>>, 1)
    \/ CreateAdminToken(3, "cli", <<"maps">>, <<>>, NoInt)
    \/ \E raw \in RawTokens : ValidateToken(raw)
    \/ \E t \in {1, 2} : RevokeToken(t, 1)
    \/ \E t \in {1, 2} : AdminRevokeToken(t)
    \/ \E st \in {StatusActive, StatusSuspended} : UpdateUser(1, "", st, NoInt, NoInt)
    \/ DeleteFeature(2)
    \/ DeleteGroup(2)

SpecValidate == InitTokens /\ [][NextValidate]_vars

----------------------------------------------------------------------------
(* Claims on the validation specification.  ValidateToken changes no table:  *)
(* while tkResp shows a validation, the tables are those it was answered on. *)

\* C3 as stated: a validation of the raw value of an issued token that is not
\* revoked and not expired succeeds, with the owner as user id and exactly the
\* feature ids the token was issued with.
C3_Original ==
    tkResp.op = "ValidateToken" =>
        \A m \in minted : \A t \in tokens :
            /\ m.raw = tkResp.req.raw /\ t.id = m.id
            /\ t.revoked_at = NoInt
            /\ (t.expires_at = NoInt \/ t.expires_at >= now)
            => /\ tkResp.out.result = "ok"
               /\ tkResp.out.userId = m.user_id
               /\ tkResp.out.featureIds = m.feature_ids

\* C3 as amended: a validation of the raw value of an issued token that is not
\* revoked and not expired succeeds exactly when the owner can be loaded (user
\* row and its group row present) and is active; it then returns the owner as
\* user id and the feature ids of the token's scope rows, which are the ids it
\* was issued with, less those of the features deleted since when the store
\* enforces foreign keys.  It fails with UserNotFound when the owner cannot be
\* loaded and with UserNotActive when the owner is suspended.
C3_ValidateLiveToken ==
    tkResp.op = "ValidateToken" =>
        \A m \in minted : \A t \in tokens :
            /\ m.raw = tkResp.req.raw /\ t.id = m.id
            /\ t.revoked_at = NoInt
            /\ (t.expires_at = NoInt \/ t.expires_at >= now)
            => LET loaded == \E u \in users : u.id = m.user_id
                                /\ \E g \in groups : g.id = u.group_id
                   active == \E u \in users : u.id = m.user_id /\ u.status = StatusActive
               IN  /\ loaded /\ active =>
                        /\ tkResp.out.result = "ok"
                        /\ tkResp.out.token = m.id
                        /\ tkResp.out.userId = m.user_id
                        /\ tkResp.out.featureIds =
                              IF foreignKeys
                              THEN m.feature_ids \cap { f.id : f \in features }
                              ELSE m.feature_ids
                   /\ ~loaded => tkResp.out.result = "UserNotFound"
                   /\ loaded /\ ~active => tkResp.out.result = "UserNotActive"

\* A token issued with two features has been validated while another token
\* exists: the answer carries its owner and its two feature ids.
C3_Witness ==
    /\ tkResp.op = "ValidateToken" /\ tkResp.out.result = "ok"
    /\ Cardinality(tokens) = 2
    /\ \E m \in minted : /\ m.raw = tkResp.req.raw
                         /\ Cardinality(m.feature_ids) = 2
                         /\ tkResp.out.featureIds = m.feature_ids
                         /\ tkResp.out.userId = m.user_id

\* C4: a validation of the raw value of a revoked token answers TokenRevoked,
\* also when the token has expired as well; a validation of a token that is not
\* revoked and whose expires_at is before now (already at now - 1) answers
\* TokenExpired; and no step clears a revoked_at or removes a revoked token: a
\* revocation that answered ok leaves the token revoked, and it stays so.
C4_RevokedThenExpired ==
    /\ [](tkResp.op = "ValidateToken" =>
            \A m \in minted : \A t \in tokens :
                m.raw = tkResp.req.raw /\ t.id = m.id =>
                    /\ t.revoked_at # NoInt => tkResp.out.result = "TokenRevoked"
                    /\ t.revoked_at = NoInt /\ t.expires_at # NoInt /\ t.expires_at <= now - 1
                           => tkResp.out.result = "TokenExpired")
    /\ [][ /\ \A t \in tokens : t.revoked_at # NoInt => t \in tokens'
           /\ tkResp'.op \in {"RevokeToken", "AdminRevokeToken"} /\ tkResp'.out.result = "ok"
                  => \E t \in tokens' : t.id = tkResp'.req.token /\ t.revoked_at # NoInt
           /\ \A m \in minted : \E t \in tokens' : t.id = m.id
         ]_vars

\* A token that is both revoked and expired has been validated: TokenRevoked.
C4_Witness ==
    /\ tkResp.op = "ValidateToken" /\ tkResp.out.result = "TokenRevoked"
    /\ \E m \in minted : \E t \in tokens :
          /\ m.raw = tkResp.req.raw /\ t.id = m.id
          /\ t.revoked_at # NoInt /\ t.expires_at # NoInt /\ t.expires_at < now

----------------------------------------------------------------------------
(* The scope specification: issuance, revocation by any user and by an admin, *)
(* creation, update and deletion of features, and the clock.                  *)

NextScope ==
    \/ Tick
    \/ CreateUserToken(1, "cli", <<"maps", "schedule">>, <<>>, NoInt)
    \/ CreateUserToken(2, "cli", <<"schedule">>, <<>>, NoInt)
    \/ CreateAdminToken(1, "cli", <<"maps.tiles">>, <<>>, NoInt)
    \/ \E t \in {1, 2, 3}, u \in {1, 2} : RevokeToken(t, u)
    \/ \E t \in {1, 2, 3} : AdminRevokeToken(t)
    \/ CreateFeature("beta", 1, FALSE)
    \/ \E ao \in {<<>>, <<TRUE>>} : UpdateFeature(2, 1, ao)
    \/ \E f \in {1, 2} : DeleteFeature(f)

SpecScope == InitTokens /\ [][NextScope]_vars

\* C7 as stated: every stored token has at least one scope row, and every scope
\* row refers to a feature that exists.
C7_ScopeRows ==
    /\ \A t \in tokens : \E r \in token_features : r.token_id = t.id
    /\ \A r \in token_features : \E f \in features : f.id = r.feature_id

\* C9: RevokeToken(tokenId, userId) answers ok and sets revoked_at = now on the
\* row with that id when that row is owned by userId and not revoked, and
\* otherwise answers TokenNotFoundOrAlreadyRevoked and leaves the tokens table as
\* it is; AdminRevokeToken does the same without comparing the owner.  Neither
\* changes another token row, a scope row or an IP row.
C9_Revocation ==
    [][ tkResp'.op \in {"RevokeToken", "AdminRevokeToken"} =>
        LET req == tkResp'.req
            hit == { t \in tokens :
                       /\ t.id = req.token /\ t.revoked_at = NoInt
                       /\ (tkResp'.op = "RevokeToken" => t.user_id = req.user) }
        IN  /\ hit # {} =>
                /\ tkResp'.out.result = "ok"
                /\ tokens' = (tokens \ hit) \cup { [t EXCEPT !.revoked_at = now] : t \in hit }
            /\ hit = {} =>
                /\ tkResp'.out.result = "TokenNotFoundOrAlreadyRevoked"
                /\ tokens' = tokens
            /\ UNCHANGED <<token_features, token_allowed_ips, users, features>>
      ]_vars

\* A user has tried to revoke an unrevoked token of another user and was
\* refused, while a token revoked at an earlier time keeps its revoked_at.
C9_Witness ==
    /\ tkResp.op = "RevokeToken"
    /\ tkResp.out.result = "TokenNotFoundOrAlreadyRevoked"
    /\ \E t \in tokens : /\ t.id = tkResp.req.token /\ t.user_id # tkResp.req.user
                         /\ t.revoked_at = NoInt
    /\ \E t \in tokens : t.revoked_at # NoInt /\ t.revoked_at < now

----------------------------------------------------------------------------
(* The access specification: the scope check of the token guard on a catalog *)
(* that admins create, re-parent and delete features in.                     *)

\* The scope check of RequireToken: TokenHasFeatureAccess on the feature ids of
\* the validated token and the slug of the route.
CheckFeatureAccess(tokenFeatureIDs, targetFeatureSlug) ==
    /\ tkResp' = [op |-> "TokenHasFeatureAccess",
                  req |-> [ids |-> tokenFeatureIDs, slug |-> targetFeatureSlug],
                  out |-> TokenHasFeatureAccess(tokenFeatureIDs, targetFeatureSlug)]
    /\ UNCHANGED <<now, foreignKeys, issuing, quotaVars, usageVars, groups, academic_domains, users, loginVars, tokenTables>>

\* A caller of GetFeatureAncestors: what the call gives for featureID.
ListFeatureAncestors(featureID) ==
    /\ tkResp' = [op |-> "GetFeatureAncestors",
                  req |-> [id |-> featureID],
                  out |-> GetFeatureAncestors(featureID)]
    /\ UNCHANGED <<now, foreignKeys, issuing, quotaVars, usageVars, groups, academic_domains, users, loginVars, tokenTables>>

NextAccess ==
    \/ \E ids \in SUBSET {1, 2, 4, 7}, slug \in {"maps", "maps.tiles", "maps.routing", "beta", "nope"} :
            CheckFeatureAccess(ids, slug)
    \/ \E f \in {1, 4, 7} : ListFeatureAncestors(f)
    \/ CreateFeature("beta", 4, FALSE)
    \/ \E f \in {1, 4}, parent \in {1, 4, 7} : UpdateFeature(f, parent, <<>>)
    \/ \E f \in {1, 4} : DeleteFeature(f)

SpecAccess == InitTokens /\ [][NextAccess]_vars

\* The ids on the parent chain of a feature, itself included, following at most
\* n links.
RECURSIVE ChainIds(_, _)
ChainIds(id, n) ==
    IF n = 0 \/ ~(\E f \in features : f.id = id) THEN {}
    ELSE {id} \cup ChainIds((CHOOSE f \in features : f.id = id).parent_id, n - 1)

\* C10 as stated: tokenHasFeatureAccess(ids, slug) returns, and returns true
\* exactly when slug names an existing feature and the id of that feature or of
\* one of its ancestors along the parent chain is in ids; an unknown slug gives
\* false.
C10_AccessIffAncestorHeld ==
    tkResp.op = "TokenHasFeatureAccess" =>
        /\ tkResp.out.returns
        /\ tkResp.out.access <=>
              \E f \in features :
                  /\ f.slug = tkResp.req.slug
                  /\ ChainIds(f.id, Cardinality(features)) \cap tkResp.req.ids # {}


\* C11 as stated: ancestors(f) of an existing feature f returns; the list it
\* returns starts with f, each next entry is the parent of the one before, the
\* last entry has no parent, and no feature is listed twice; on a cyclic parent
\* chain the call still returns (with an error).
C11_AncestorsTerminate ==
    (tkResp.op = "GetFeatureAncestors" /\ GetFeatureByID(tkResp.req.id).id # NoId) =>
        LET out == tkResp.out
            a == out.ancestors
        IN  /\ ~out.diverges
            /\ Len(a) >= 1
            /\ a[1] = tkResp.req.id
            /\ \A i \in 1..(Len(a) - 1) : a[i + 1] = GetFeatureByID(a[i]).parent_id
            /\ \A i, j \in DOMAIN a : a[i] = a[j] => i = j

\* C12 as stated: whatever CreateFeature, UpdateFeature and DeleteFeature calls
\* were made, no feature of the catalog is its own parent or its own ancestor.
C12_ParentForest ==
    \A f \in features : f.id \notin ChainIds(f.parent_id, Cardinality(features))


----------------------------------------------------------------------------
(* Quota engine *)

DefaultSystemRPM == 60

UnlimitedRPM == 0 - 1

\* What a nullable rpm_limit column scans to: NULL (<<>>) is uncapped.
RPMOf(rpmLimit) == IF rpmLimit = <<>> THEN UnlimitedRPM ELSE rpmLimit[1]

\* SELECT rpm_limit FROM user_quota_overrides WHERE user_id = ? AND feature_id = ?
getUserOverride(userID, featureID) ==
    IF \E o \in user_quota_overrides : o.user_id = userID /\ o.feature_id = featureID
    THEN [found |-> TRUE,
          rpm |-> RPMOf((CHOOSE o \in user_quota_overrides :
                            o.user_id = userID /\ o.feature_id = featureID).rpm_limit)]
    ELSE [found |-> FALSE, rpm |-> 0]

\* SELECT rpm_limit FROM group_feature_quotas WHERE group_id = ? AND feature_id = ?
getGroupQuota(groupID, featureID) ==
    IF \E q \in group_feature_quotas : q.group_id = groupID /\ q.feature_id = featureID
    THEN [found |-> TRUE,
          rpm |-> RPMOf((CHOOSE q \in group_feature_quotas :
                            q.group_id = groupID /\ q.feature_id = featureID).rpm_limit)]
    ELSE [found |-> FALSE, rpm |-> 0]

\* Step 4 of GetEffectiveRPM: the first group quota found along the ancestry.
RECURSIVE FirstGroupQuota(_, _)
FirstGroupQuota(groupID, ancestors) ==
    IF ancestors = <<>> THEN [found |-> FALSE, rpm |-> 0]
    ELSE IF getGroupQuota(groupID, Head(ancestors)).found
    THEN getGroupQuota(groupID, Head(ancestors))
    ELSE FirstGroupQuota(groupID, Tail(ancestors))

\* GetEffectiveRPM: whether the call returns, and the limit it returns.  The
\* ancestry is computed in full (step 3) before any group quota is looked up.
GetEffectiveRPM(userID, featureID) ==
    LET override == getUserOverride(userID, featureID)
        user == GetUserByID(userID)
        found == GetFeatureAncestors(featureID)
        quota == FirstGroupQuota(user.group_id, found.ancestors)
    IN  IF override.found THEN [returns |-> TRUE, rpm |-> override.rpm]
        ELSE IF user.id = NoId THEN [returns |-> TRUE, rpm |-> DefaultSystemRPM]
        ELSE IF found.diverges THEN [returns |-> FALSE, rpm |-> 0]
        ELSE IF quota.found THEN [returns |-> TRUE, rpm |-> quota.rpm]
        ELSE IF \E g \in groups : g.id = user.group_id
        THEN [returns |-> TRUE,
              rpm |-> (CHOOSE g \in groups : g.id = user.group_id).default_rpm]
        ELSE [returns |-> TRUE, rpm |-> DefaultSystemRPM]

\* INSERT INTO user_quota_overrides: refused under enforced foreign keys when
\* the user or the feature does not exist.
SetUserQuotaOverrideRefused(userID, featureID) ==
    foreignKeys /\ (~(\E u \in users : u.id = userID) \/ GetFeatureByID(featureID).id = NoId)

\* INSERT ... ON CONFLICT (user_id, feature_id) DO UPDATE SET rpm_limit = ?
SetUserQuotaOverride(userID, featureID, rpmLimit) ==
    /\ user_quota_overrides' =
          IF SetUserQuotaOverrideRefused(userID, featureID) THEN user_quota_overrides
          ELSE { o \in user_quota_overrides :
                    ~(o.user_id = userID /\ o.feature_id = featureID) }
               \cup {[user_id |-> userID, feature_id |-> featureID, rpm_limit |-> rpmLimit]}
    /\ tkResp' = [op |-> "SetUserQuotaOverride",
                  req |-> [user |-> userID, feature |-> featureID, rpmLimit |-> rpmLimit],
                  out |-> [result |-> IF SetUserQuotaOverrideRefused(userID, featureID)
                                      THEN "StoreError" ELSE "ok"]]
    /\ UNCHANGED <<now, foreignKeys, issuing, usageVars, groups, academic_domains, users, loginVars,
                   tokenTables, group_feature_quotas>>

\* DELETE FROM user_quota_overrides WHERE user_id = ? AND feature_id = ?
DeleteUserQuotaOverride(userID, featureID) ==
    /\ user_quota_overrides' =
          { o \in user_quota_overrides : ~(o.user_id = userID /\ o.feature_id = featureID) }
    /\ tkResp' = [op |-> "DeleteUserQuotaOverride",
                  req |-> [user |-> userID, feature |-> featureID],
                  out |-> [result |-> "ok"]]
    /\ UNCHANGED <<now, foreignKeys, issuing, usageVars, groups, academic_domains, users, loginVars,
                   tokenTables, group_feature_quotas>>

\* SetGroupFeatureQuota on a seeded group and an existing feature (an upsert).
SetGroupFeatureQuota(groupID, featureID, rpmLimit) ==
    /\ \E g \in groups : g.id = groupID
    /\ GetFeatureByID(featureID).id # NoId
    /\ group_feature_quotas' =
          { q \in group_feature_quotas :
              ~(q.group_id = groupID /\ q.feature_id = featureID) }
          \cup {[group_id |-> groupID, feature_id |-> featureID, rpm_limit |-> rpmLimit]}
    /\ tkResp' = [op |-> "SetGroupFeatureQuota",
                  req |-> [group |-> groupID, feature |-> featureID],
                  out |-> [result |-> "ok"]]
    /\ UNCHANGED <<now, foreignKeys, issuing, usageVars, groups, academic_domains, users, loginVars,
                   tokenTables, user_quota_overrides>>

\* DELETE FROM group_feature_quotas WHERE group_id = ? AND feature_id = ?
DeleteGroupFeatureQuota(groupID, featureID) ==
    /\ group_feature_quotas' =
          { q \in group_feature_quotas :
              ~(q.group_id = groupID /\ q.feature_id = featureID) }
    /\ tkResp' = [op |-> "DeleteGroupFeatureQuota",
                  req |-> [group |-> groupID, feature |-> featureID],
                  out |-> [result |-> "ok"]]
    /\ UNCHANGED <<now, foreignKeys, issuing, usageVars, groups, academic_domains, users, loginVars,
                   tokenTables, user_quota_overrides>>

\* A caller of GetEffectiveRPM (step 8 of RequireToken): what the call gives.
CheckEffectiveRPM(userID, featureID) ==
    /\ tkResp' = [op |-> "GetEffectiveRPM",
                  req |-> [user |-> userID, feature |-> featureID],
                  out |-> GetEffectiveRPM(userID, featureID)]
    /\ UNCHANGED <<now, foreignKeys, issuing, quotaVars, usageVars, groups, academic_domains, users,
                   loginVars, tokenTables>>

----------------------------------------------------------------------------
(* The quota specification: limits looked up while overrides and group      *)
(* quotas are set and removed and the catalog and the groups change.        *)

NextQuota ==
    \/ \E u \in {1, 3}, f \in {1, 4, 7} : CheckEffectiveRPM(u, f)
    \/ \E f \in {1, 4}, r \in {<<>>, <<5>>, <<7>>} : SetUserQuotaOverride(1, f, r)
    \/ SetUserQuotaOverride(3, 4, <<5>>)
    \/ \E f \in {1, 4} : DeleteUserQuotaOverride(1, f)
    \/ \E f \in {1, 4} : SetGroupFeatureQuota(2, f, <<>>)
    \/ \E f \in {1, 4} : DeleteGroupFeatureQuota(2, f)
    \/ CreateFeature("beta", 4, FALSE)
    \/ UpdateFeature(1, 4, <<>>)
    \/ DeleteFeature(4)
    \/ DeleteGroup(2)

SpecQuota == InitTokens /\ [][NextQuota]_vars

\* The group levels of the quota hierarchy as the specification words them: the
\* quota of the first feature on the parent chain of id, id first, that has a
\* row for the group, following at most n links; <<>> when there is none.
RECURSIVE GroupLevel(_, _, _)
GroupLevel(groupID, id, n) ==
    IF n = 0 \/ GetFeatureByID(id).id = NoId THEN <<>>
    ELSE IF getGroupQuota(groupID, id).found THEN <<getGroupQuota(groupID, id).rpm>>
    ELSE GroupLevel(groupID, GetFeatureByID(id).parent_id, n - 1)

\* The limit below the override level: the group levels, then the default of
\* the user's group, and 60 for a user that cannot be loaded with its group.
LowerLevels(userID, featureID) ==
    LET user == GetUserByID(userID)
        level == GroupLevel(user.group_id, featureID, Cardinality(features))
    IN  IF user.id = NoId THEN DefaultSystemRPM
        ELSE IF level # <<>> THEN level[1]
        ELSE (CHOOSE g \in groups : g.id = user.group_id).default_rpm

\* C13 as stated: effectiveRpm(user, feature) returns the override of exactly
\* that pair when there is one (NULL giving -1), otherwise the group quota of
\* the nearest feature on the ancestry that has one (NULL giving -1), otherwise
\* the default of the user's group, and 60 when the user or its group is missing.
C13_EffectiveRpm ==
    tkResp.op = "GetEffectiveRPM" =>
        /\ tkResp.out.returns
        /\ tkResp.out.rpm =
              IF getUserOverride(tkResp.req.user, tkResp.req.feature).found
              THEN getUserOverride(tkResp.req.user, tkResp.req.feature).rpm
              ELSE LowerLevels(tkResp.req.user, tkResp.req.feature)

\* C14 as stated: once SetUserQuotaOverride(user, feature, rpmLimit) has
\* succeeded, effectiveRpm(user, feature) is -1 for a NULL rpmLimit and the
\* given number otherwise, whatever override the pair had before (one row per
\* pair: setting twice is setting the last value once); once
\* DeleteUserQuotaOverride(user, feature) has run, effectiveRpm(user, feature)
\* is the value of the group levels and the group default.
C14_OverrideAlgebra ==
    /\ (tkResp.op = "SetUserQuotaOverride" /\ tkResp.out.result = "ok") =>
          /\ GetEffectiveRPM(tkResp.req.user, tkResp.req.feature) =
                [returns |-> TRUE,
                 rpm |-> IF tkResp.req.rpmLimit = <<>> THEN 0 - 1
                         ELSE tkResp.req.rpmLimit[1]]
          /\ Cardinality({ o \in user_quota_overrides :
                             /\ o.user_id = tkResp.req.user
                             /\ o.feature_id = tkResp.req.feature }) = 1
    /\ tkResp.op = "DeleteUserQuotaOverride" =>
          GetEffectiveRPM(tkResp.req.user, tkResp.req.feature) =
              [returns |-> TRUE,
               rpm |-> LowerLevels(tkResp.req.user, tkResp.req.feature)]

----------------------------------------------------------------------------
(* Usage tracker *)

\* Capacity of the usage channel (1000 in the source), scaled to the model.
UsageBufferSize == 2

\* The batch length at which the writer flushes (100 in the source), scaled.
FlushBatchSize == 2

\* The length of the RPM window (60 s) in ticks of now.
UsageRetentionPeriod == 1

\* The number of RecordRequest calls the model follows.
MaxRecords == 3

\* Mutant of RecordRequestBuffer: the entry is sent whatever the channel holds.
RecordRequestBufferUnbounded(userID, featureID) ==
    Append(buffer, [UserID |-> userID, FeatureID |-> featureID, Timestamp |-> now,
                    n |-> recordSeq + 1])

\* The channel after RecordRequest: a non-blocking send, the entry is dropped
\* when the channel is full.  The field n tells the calls apart.
RecordRequestBuffer(userID, featureID) ==
    IF Len(buffer) < UsageBufferSize
    THEN Append(buffer, [UserID |-> userID, FeatureID |-> featureID, Timestamp |-> now,
                         n |-> recordSeq + 1])
    ELSE buffer

\* UsageTracker.RecordRequest
RecordRequest(userID, featureID) ==
    /\ recordSeq < MaxRecords
    /\ buffer' = RecordRequestBuffer(userID, featureID)
    /\ recordSeq' = recordSeq + 1
    /\ tkResp' = [op |-> "RecordRequest",
                  req |-> [user |-> userID, feature |-> featureID, n |-> recordSeq + 1],
                  out |-> [returns |-> TRUE]]
    /\ UNCHANGED <<now, foreignKeys, issuing, cleanerVars, quotaVars, groups, academic_domains, users, loginVars,
                   tokenTables, usage_log, usageSeq, batch, tickerC, cancelled, writerPc>>

\* SELECT COUNT(*) FROM usage_log WHERE user_id = ? AND feature_id = ? AND timestamp > ?
GetFeatureRPM(userID, featureID) ==
    Cardinality({ r \in usage_log : /\ r.user_id = userID
                                     /\ r.feature_id = featureID
                                     /\ r.timestamp > now - UsageRetentionPeriod })

\* SELECT COUNT(*) FROM usage_log WHERE user_id = ? AND timestamp > ?
GetUserTotalRPM(userID) ==
    Cardinality({ r \in usage_log : /\ r.user_id = userID
                                     /\ r.timestamp > now - UsageRetentionPeriod })

\* Whether stmt.Exec of flushBatch inserts the entry: under enforced foreign keys
\* its user and its feature must exist.
InsertAccepted(entry) ==
    foreignKeys => /\ \E u \in users : u.id = entry.UserID
                   /\ GetFeatureByID(entry.FeatureID).id # NoId

\* The rows flushBatch adds to usage_log.  committed tells whether the store
\* lets the transaction begin, prepare and commit; the error of an insert is
\* ignored and the other entries of the batch are still written.
flushBatchRows(b, committed) ==
    IF ~committed THEN {}
    ELSE { [id |-> usageSeq + Cardinality({ j \in 1..i : InsertAccepted(b[j]) }),
            user_id |-> b[i].UserID, feature_id |-> b[i].FeatureID,
            timestamp |-> b[i].Timestamp, n |-> b[i].n] :
             i \in { k \in DOMAIN b : InsertAccepted(b[k]) } }

\* flushBatch(b) as a step of the writer.
flushBatch(b, committed) ==
    /\ usage_log' = usage_log \cup flushBatchRows(b, committed)
    /\ usageSeq' = usageSeq + Cardinality(flushBatchRows(b, committed))
    /\ tkResp' = IF b = <<>> THEN NoTkResp
                 ELSE [op |-> "flushBatch",
                       req |-> [batch |-> { b[i].n : i \in DOMAIN b }],
                       out |-> [committed |-> committed]]

\* usageWriter, case entry := <-t.buffer
WriterReceive(committed) ==
    /\ writerPc = "select"
    /\ buffer # <<>>
    /\ buffer' = Tail(buffer)
    /\ IF Len(batch) + 1 >= FlushBatchSize
       THEN /\ flushBatch(Append(batch, Head(buffer)), committed)
            /\ batch' = <<>>
       ELSE /\ batch' = Append(batch, Head(buffer))
            /\ tkResp' = NoTkResp
            /\ UNCHANGED <<usage_log, usageSeq>>
    /\ UNCHANGED <<now, foreignKeys, issuing, cleanerVars, quotaVars, groups, academic_domains, users, loginVars,
                   tokenTables, recordSeq, tickerC, cancelled, writerPc>>

\* The 2 s ticker of the writer delivers a tick (a tick is lost while the
\* previous one has not been taken).
TickerFire ==
    /\ writerPc = "select"
    /\ ~tickerC
    /\ tickerC' = TRUE
    /\ tkResp' = NoTkResp
    /\ UNCHANGED <<now, foreignKeys, issuing, cleanerVars, quotaVars, groups, academic_domains, users, loginVars,
                   tokenTables, usage_log, usageSeq, recordSeq, buffer, batch, cancelled,
                   writerPc>>

\* Mutant of WriterTick: the batch is kept after the periodic flush.
WriterTickKeepsBatch(committed) ==
    /\ writerPc = "select"
    /\ tickerC
    /\ tickerC' = FALSE
    /\ flushBatch(batch, committed)
    /\ UNCHANGED <<now, foreignKeys, issuing, cleanerVars, quotaVars, groups, academic_domains, users, loginVars,
                   tokenTables, recordSeq, buffer, batch, cancelled, writerPc>>

\* usageWriter, case <-ticker.C
WriterTick(committed) ==
    /\ writerPc = "select"
    /\ tickerC
    /\ tickerC' = FALSE
    /\ flushBatch(batch, committed)
    /\ batch' = <<>>
    /\ UNCHANGED <<now, foreignKeys, issuing, cleanerVars, quotaVars, groups, academic_domains, users, loginVars,
                   tokenTables, recordSeq, buffer, cancelled, writerPc>>

\* The signal handler of main: cancel() and usageTracker.Stop().  The HTTP
\* server is not stopped.
Shutdown ==
    /\ ~cancelled
    /\ cancelled' = TRUE
    /\ tkResp' = NoTkResp
    /\ UNCHANGED <<now, foreignKeys, issuing, cleanerVars, quotaVars, groups, academic_domains, users, loginVars,
                   tokenTables, usage_log, usageSeq, recordSeq, buffer, batch, tickerC,
                   writerPc>>

\* Mutant of WriterStop: the drain goes on with the batch that was just flushed.
WriterStopKeepsBatch(committed) ==
    /\ writerPc = "select"
    /\ cancelled
    /\ flushBatch(batch, committed)
    /\ writerPc' = "drain"
    /\ UNCHANGED <<now, foreignKeys, issuing, cleanerVars, quotaVars, groups, academic_domains, users, loginVars,
                   tokenTables, recordSeq, buffer, batch, tickerC, cancelled>>

\* usageWriter, case <-ctx.Done() / <-t.stopCh: the batch is flushed, then
\* drainAndFlush starts with a batch of its own.
WriterStop(committed) ==
    /\ writerPc = "select"
    /\ cancelled
    /\ flushBatch(batch, committed)
    /\ batch' = <<>>
    /\ writerPc' = "drain"
    /\ UNCHANGED <<now, foreignKeys, issuing, cleanerVars, quotaVars, groups, academic_domains, users, loginVars,
                   tokenTables, recordSeq, buffer, tickerC, cancelled>>

\* drainAndFlush, case entry := <-t.buffer
DrainReceive ==
    /\ writerPc = "drain"
    /\ buffer # <<>>
    /\ buffer' = Tail(buffer)
    /\ batch' = Append(batch, Head(buffer))
    /\ tkResp' = NoTkResp
    /\ UNCHANGED <<now, foreignKeys, issuing, cleanerVars, quotaVars, groups, academic_domains, users, loginVars,
                   tokenTables, usage_log, usageSeq, recordSeq, tickerC, cancelled, writerPc>>

\* drainAndFlush, default case: the channel is empty, the drained batch is
\* flushed and the writer returns.
DrainDefault(committed) ==
    /\ writerPc = "drain"
    /\ buffer = <<>>
    /\ flushBatch(batch, committed)
    /\ batch' = <<>>
    /\ writerPc' = "done"
    /\ UNCHANGED <<now, foreignKeys, issuing, cleanerVars, quotaVars, groups, academic_domains, users, loginVars,
                   tokenTables, recordSeq, buffer, tickerC, cancelled>>

\* The 30 s ticker of cleanupTicker delivers a tick.
CleanupTickerFire ==
    /\ cleanerPc = "select"
    /\ ~cleanupC
    /\ cleanupC' = TRUE
    /\ tkResp' = NoTkResp
    /\ UNCHANGED <<now, foreignKeys, issuing, quotaVars, groups, academic_domains, users, loginVars,
                   tokenTables, usage_log, usageSeq, recordSeq, buffer, batch, tickerC,
                   cancelled, writerPc, cleanerPc>>

\* Mutant of cleanup: the cutoff of the purge is one time unit later than the
\* cutoff of the counts.
cleanupShortRetention ==
    /\ cleanerPc = "select"
    /\ cleanupC
    /\ cleanupC' = FALSE
    /\ usage_log' = { r \in usage_log : ~(r.timestamp <= now - UsageRetentionPeriod + 1) }
    /\ sessions' = { r \in sessions : ~(r.expires_at <= now) }
    /\ oauth_states' = CleanupExpiredStatesDelete
    /\ tkResp' = [op |-> "cleanup", req |-> [cancelled |-> cancelled], out |-> <<>>]
    /\ UNCHANGED <<now, foreignKeys, issuing, quotaVars, groups, academic_domains, users,
                   oauth_identities, sessionSeq, issued, validateLog, cbResp,
                   tokenTables, usageSeq, recordSeq, buffer, batch, tickerC,
                   cancelled, writerPc, cleanerPc>>

\* cleanupTicker, case <-ticker.C: cleanup() deletes the usage rows that left
\* the window, the expired sessions and the expired OAuth states.  The select
\* may take this case while the Done channel is closed too.
cleanup ==
    /\ cleanerPc = "select"
    /\ cleanupC
    /\ cleanupC' = FALSE
    /\ usage_log' = { r \in usage_log : ~(r.timestamp <= now - UsageRetentionPeriod) }
    /\ sessions' = { r \in sessions : ~(r.expires_at <= now) }
    /\ oauth_states' = CleanupExpiredStatesDelete
    /\ tkResp' = [op |-> "cleanup", req |-> [cancelled |-> cancelled], out |-> <<>>]
    /\ UNCHANGED <<now, foreignKeys, issuing, quotaVars, groups, academic_domains, users,
                   oauth_identities, sessionSeq, issued, validateLog, cbResp,
                   tokenTables, usageSeq, recordSeq, buffer, batch, tickerC,
                   cancelled, writerPc, cleanerPc>>

\* cleanupTicker, case <-ctx.Done() / <-t.stopCh: the worker returns.
CleanerStop ==
    /\ cleanerPc = "select"
    /\ cancelled
    /\ cleanerPc' = "done"
    /\ tkResp' = NoTkResp
    /\ UNCHANGED <<now, foreignKeys, issuing, quotaVars, groups, academic_domains, users, loginVars,
                   tokenTables, usage_log, usageSeq, recordSeq, buffer, batch, tickerC,
                   cancelled, writerPc, cleanupC>>

\* Stop's t.wg.Wait() has returned: both workers have called wg.Done.
Joined == writerPc = "done" /\ cleanerPc = "done"

----------------------------------------------------------------------------
(* Token guard *)

\* IsIPAllowed on canonical texts; allowedIPs is the list as a set.
IsIPAllowed(ip, allowedIPs) == allowedIPs = {} \/ ip \in allowedIPs

\* An answer of the guard without rate-limit headers; record tells whether steps
\* 9 and 10 are reached (usage recorded, request passed on).
GuardAnswer(status, error, record) ==
    [status |-> status, error |-> error, limit |-> <<>>, remaining |-> <<>>,
     retryAfter |-> <<>>, record |-> record]

\* Mutant of RateLimitAnswer: a count equal to the limit is still admitted.
RateLimitAnswerStrict(effectiveRPM, currentRPM) ==
    [status |-> IF currentRPM > effectiveRPM THEN 429 ELSE 200,
     error |-> IF currentRPM > effectiveRPM THEN "rate limit exceeded" ELSE "",
     limit |-> <<effectiveRPM>>,
     remaining |-> <<IF effectiveRPM - currentRPM - 1 < 0 THEN 0
                     ELSE effectiveRPM - currentRPM - 1>>,
     retryAfter |-> IF currentRPM > effectiveRPM THEN <<60>> ELSE <<>>,
     record |-> currentRPM <= effectiveRPM]

\* Mutant of RateLimitAnswer: the remaining count is not clamped at 0.
RateLimitAnswerUnclamped(effectiveRPM, currentRPM) ==
    [status |-> IF currentRPM >= effectiveRPM THEN 429 ELSE 200,
     error |-> IF currentRPM >= effectiveRPM THEN "rate limit exceeded" ELSE "",
     limit |-> <<effectiveRPM>>,
     remaining |-> <<effectiveRPM - currentRPM - 1>>,
     retryAfter |-> IF currentRPM >= effectiveRPM THEN <<60>> ELSE <<>>,
     record |-> currentRPM < effectiveRPM]

\* Mutant of RateLimitAnswer: usage is recorded before the count is compared
\* with the limit.
RateLimitAnswerRecordsDenied(effectiveRPM, currentRPM) ==
    [status |-> IF currentRPM >= effectiveRPM THEN 429 ELSE 200,
     error |-> IF currentRPM >= effectiveRPM THEN "rate limit exceeded" ELSE "",
     limit |-> <<effectiveRPM>>,
     remaining |-> <<IF effectiveRPM - currentRPM - 1 < 0 THEN 0
                     ELSE effectiveRPM - currentRPM - 1>>,
     retryAfter |-> IF currentRPM >= effectiveRPM THEN <<60>> ELSE <<>>,
     record |-> TRUE]

\* Step 8 of RequireToken for a limit that is not UnlimitedRPM: the headers, and
\* 429 when the count of the last minute has reached the limit.
RateLimitAnswer(effectiveRPM, currentRPM) ==
    [status |-> IF currentRPM >= effectiveRPM THEN 429 ELSE 200,
     error |-> IF currentRPM >= effectiveRPM THEN "rate limit exceeded" ELSE "",
     limit |-> <<effectiveRPM>>,
     remaining |-> <<IF effectiveRPM - currentRPM - 1 < 0 THEN 0
                     ELSE effectiveRPM - currentRPM - 1>>,
     retryAfter |-> IF currentRPM >= effectiveRPM THEN <<60>> ELSE <<>>,
     record |-> currentRPM < effectiveRPM]

\* Mutant of IsFeatureAdminOnly: the flag the feature had when the tokens of
\* the model were issued.
IsFeatureAdminOnlyAtIssuance(featureID) ==
    \E f \in SeedFeatures : f.id = featureID /\ f.admin_only

\* FeatureRegistry.IsFeatureAdminOnly: the flag of the row at request time.
IsFeatureAdminOnly(featureID) ==
    \E f \in features : f.id = featureID /\ f.admin_only

\* Mutant of RequireTokenResult: the limit is tested before the client IP.
RequireTokenResultQuotaFirst(featureSlug, authHeader, clientIP) ==
    LET validated == ValidateTokenResult(authHeader[2])
        feature == GetFeatureBySlug(featureSlug)
        token == CHOOSE t \in tokens : t.id = validated.token
        hasAccess == TokenHasFeatureAccess(validated.featureIds, featureSlug)
        effectiveRPM == GetEffectiveRPM(validated.userId, feature.id)
    IN  IF authHeader = <<>>
        THEN GuardAnswer(401, "missing authorization header", FALSE)
        ELSE IF Len(authHeader) # 2 \/ authHeader[1] \notin {"Bearer", "bearer"}
        THEN GuardAnswer(401, "invalid authorization header format", FALSE)
        ELSE IF validated.result # "ok" THEN GuardAnswer(401, validated.result, FALSE)
        ELSE IF feature.id = NoId THEN GuardAnswer(500, "feature not found", FALSE)
        ELSE IF IsFeatureAdminOnly(feature.id) /\ ~token.admin_created
        THEN GuardAnswer(403, "this feature requires an admin-issued token", FALSE)
        ELSE IF ~hasAccess.returns THEN GuardAnswer(0, "", FALSE)
        ELSE IF ~hasAccess.access
        THEN GuardAnswer(403, "token does not have access to feature", FALSE)
        ELSE IF ~effectiveRPM.returns THEN GuardAnswer(0, "", FALSE)
        ELSE IF effectiveRPM.rpm # UnlimitedRPM
                /\ GetFeatureRPM(validated.userId, feature.id) >= effectiveRPM.rpm
        THEN RateLimitAnswer(effectiveRPM.rpm,
                             GetFeatureRPM(validated.userId, feature.id))
        ELSE IF validated.allowedIPs # {} /\ CanonicalizeIP(clientIP) = ""
        THEN GuardAnswer(403, "invalid client IP", FALSE)
        ELSE IF validated.allowedIPs # {}
                /\ ~IsIPAllowed(CanonicalizeIP(clientIP), validated.allowedIPs)
        THEN GuardAnswer(403, "IP address not allowed for this token", FALSE)
        ELSE IF effectiveRPM.rpm # UnlimitedRPM
        THEN RateLimitAnswer(effectiveRPM.rpm,
                             GetFeatureRPM(validated.userId, feature.id))
        ELSE GuardAnswer(200, "", TRUE)

\* What the handler of RequireToken(featureSlug) answers.  authHeader is the
\* Authorization header split at its first space (<<>> for no header); status 0
\* stands for a request that is never answered.
RequireTokenResult(featureSlug, authHeader, clientIP) ==
    LET validated == ValidateTokenResult(authHeader[2])
        feature == GetFeatureBySlug(featureSlug)
        token == CHOOSE t \in tokens : t.id = validated.token
        hasAccess == TokenHasFeatureAccess(validated.featureIds, featureSlug)
        effectiveRPM == GetEffectiveRPM(validated.userId, feature.id)
    IN  IF authHeader = <<>>
        THEN GuardAnswer(401, "missing authorization header", FALSE)
        ELSE IF Len(authHeader) # 2 \/ authHeader[1] \notin {"Bearer", "bearer"}
        THEN GuardAnswer(401, "invalid authorization header format", FALSE)
        ELSE IF validated.result # "ok" THEN GuardAnswer(401, validated.result, FALSE)
        ELSE IF feature.id = NoId THEN GuardAnswer(500, "feature not found", FALSE)
        ELSE IF IsFeatureAdminOnly(feature.id) /\ ~token.admin_created
        THEN GuardAnswer(403, "this feature requires an admin-issued token", FALSE)
        ELSE IF ~hasAccess.returns THEN GuardAnswer(0, "", FALSE)
        ELSE IF ~hasAccess.access
        THEN GuardAnswer(403, "token does not have access to feature", FALSE)
        ELSE IF validated.allowedIPs # {} /\ CanonicalizeIP(clientIP) = ""
        THEN GuardAnswer(403, "invalid client IP", FALSE)
        ELSE IF validated.allowedIPs # {}
                /\ ~IsIPAllowed(CanonicalizeIP(clientIP), validated.allowedIPs)
        THEN GuardAnswer(403, "IP address not allowed for this token", FALSE)
        ELSE IF ~effectiveRPM.returns THEN GuardAnswer(0, "", FALSE)
        ELSE IF effectiveRPM.rpm # UnlimitedRPM
        THEN RateLimitAnswer(effectiveRPM.rpm,
                             GetFeatureRPM(validated.userId, feature.id))
        ELSE GuardAnswer(200, "", TRUE)

\* The handler of RequireToken(featureSlug) on one request.
RequireToken(featureSlug, authHeader, clientIP) ==
    LET out == RequireTokenResult(featureSlug, authHeader, clientIP)
        userID == ValidateTokenResult(authHeader[2]).userId
    IN  /\ out.record => recordSeq < MaxRecords
        /\ buffer' = IF out.record
                     THEN RecordRequestBuffer(userID, GetFeatureBySlug(featureSlug).id)
                     ELSE buffer
        /\ recordSeq' = IF out.record THEN recordSeq + 1 ELSE recordSeq
        /\ tkResp' = [op |-> "RequireToken",
                      req |-> [slug |-> featureSlug, header |-> authHeader, ip |-> clientIP],
                      out |-> out]
        /\ UNCHANGED <<now, foreignKeys, issuing, cleanerVars, quotaVars, groups, academic_domains, users,
                       loginVars, tokenTables, usage_log, usageSeq, batch, tickerC,
                       cancelled, writerPc>>

----------------------------------------------------------------------------
(* The guard specification: requests to a token-protected route while       *)
(* tokens are issued, the limit of the user is overridden, time passes and  *)
(* the usage writer takes and flushes the recorded entries.                 *)

\* The token tables after alice has issued two tokens for schedule on the
\* user path: token 1 (body a) without allowed IPs, token 2 (body b) pinned to
\* 192.0.2.1 and to 2001:db8:0:0:0:0:0:1, stored in canonical form; and an
\* administrator has issued token 3 (body c) for alice, expiring at time 1.
GuardTokens ==
    { [id |-> 1, user_id |-> 1, token_hash |-> hashToken(<<TokenPrefix, "a">>),
       label |-> "cli", admin_created |-> FALSE, expires_at |-> NoInt,
       revoked_at |-> NoInt],
      [id |-> 2, user_id |-> 1, token_hash |-> hashToken(<<TokenPrefix, "b">>),
       label |-> "cli", admin_created |-> FALSE, expires_at |-> NoInt,
       revoked_at |-> NoInt],
      [id |-> 3, user_id |-> 1, token_hash |-> hashToken(<<TokenPrefix, "c">>),
       label |-> "ops", admin_created |-> TRUE, expires_at |-> 1,
       revoked_at |-> NoInt] }

InitGuard ==
    /\ now = 1
    /\ foreignKeys = FALSE
    /\ issuing = {}
    /\ groups = SeedGroups
    /\ academic_domains = SeedAcademicDomains
    /\ users = SignedUpUsers
    /\ oauth_identities = SignedUpIdentities
    /\ oauth_states = {}
    /\ sessions = {}
    /\ sessionSeq = 0
    /\ issued = {}
    /\ validateLog = [s \in StateStrings \cup {""} |-> [ok |-> 0, live |-> FALSE]]
    /\ cbResp = NoResp
    /\ features = SeedFeatures
    /\ featureSeq = Cardinality(SeedFeatures)
    /\ tokens = GuardTokens
    /\ token_features = { [token_id |-> 1, feature_id |-> 2], [token_id |-> 2, feature_id |-> 2],
                         [token_id |-> 3, feature_id |-> 2] }
    /\ token_allowed_ips = { [token_id |-> 2, ip_address |-> "192.0.2.1"],
                             [token_id |-> 2, ip_address |-> "2001:db8::1"] }
    /\ entropy = <<>>
    /\ minted = { [raw |-> <<TokenPrefix, "a">>, id |-> 1, user_id |-> 1, feature_ids |-> {2}],
                  [raw |-> <<TokenPrefix, "b">>, id |-> 2, user_id |-> 1, feature_ids |-> {2}],
                  [raw |-> <<TokenPrefix, "c">>, id |-> 3, user_id |-> 1, feature_ids |-> {2}] }
    /\ tkResp = NoTkResp
    /\ group_feature_quotas = SeedGroupQuotas
    /\ user_quota_overrides = {}
    /\ usage_log = {}
    /\ usageSeq = 0
    /\ recordSeq = 0
    /\ buffer = <<>>
    /\ batch = <<>>
    /\ tickerC = FALSE
    /\ cancelled = FALSE
    /\ writerPc = "select"
    /\ cleanupC = FALSE
    /\ cleanerPc = "select"

\* The requests of the model: both tokens from every client address, and from
\* one address no header, a scheme that is not Bearer, a token never issued, and
\* a route outside the scope of the token.
GuardRequests ==
    { [slug |-> "schedule", header |-> <<"Bearer", <<TokenPrefix, b>>>>, ip |-> ip] :
        b \in {"a", "b"},
        ip \in {"192.0.2.1", "::ffff:192.0.2.1", "192.0.2.2", "2001:db8::1", "not-an-ip"} }
    \cup { [slug |-> "schedule", header |-> h, ip |-> "192.0.2.1"] :
             h \in { <<>>, <<"Basic", <<TokenPrefix, "a">>>>, <<"Bearer", <<TokenPrefix, "zz">>>> } }
    \cup { [slug |-> sl, header |-> <<"Bearer", <<TokenPrefix, "a">>>>, ip |-> "192.0.2.1"] :
             sl \in {"search", "maps.tiles"} }

NextGuard ==
    \/ Tick
    \/ \E r \in GuardRequests : RequireToken(r.slug, r.header, r.ip)
    \/ \E r \in {<<>>, <<1>>} : SetUserQuotaOverride(1, 2, r)
    \/ WriterReceive(TRUE)
    \/ TickerFire
    \/ WriterTick(TRUE)
    \/ UpdateFeature(4, 2, <<>>)

SpecGuard == InitGuard /\ [][NextGuard]_vars

\* The request of tkResp got past the header, token, feature, admin-only, scope
\* and IP checks and a limit was computed for it.
AtQuotaCheck ==
    /\ tkResp.op = "RequireToken"
    /\ tkResp.out.status \in {200, 429}

\* The owner of the token of the request of tkResp, and the feature of its route.
ReqUser == ValidateTokenResult(tkResp.req.header[2]).userId

ReqFeature == GetFeatureBySlug(tkResp.req.slug).id

\* C15: a request that passed the token, scope and IP checks with effective
\* limit L is, for L not Unlimited, denied with 429 exactly when
\* featureRpm(user, feature) >= L and admitted otherwise; for L Unlimited it
\* is admitted whatever the usage count and carries no rate-limit header.
C15_DenyIffCountReachesLimit ==
    AtQuotaCheck =>
        LET L == GetEffectiveRPM(ReqUser, ReqFeature).rpm
            count == GetFeatureRPM(ReqUser, ReqFeature)
        IN  IF L # 0 - 1
            THEN /\ tkResp.out.status = 429 <=> count >= L
                 /\ tkResp.out.status = 200 <=> count < L
                 /\ tkResp.out.record <=> count < L
            ELSE /\ tkResp.out.status = 200
                 /\ tkResp.out.record
                 /\ tkResp.out.limit = <<>>
                 /\ tkResp.out.remaining = <<>>
                 /\ tkResp.out.retryAfter = <<>>

\* C15 witness: a request denied with 429 at a count equal to the limit.
C15_Witness ==
    /\ AtQuotaCheck
    /\ tkResp.out.status = 429
    /\ GetFeatureRPM(ReqUser, ReqFeature) = GetEffectiveRPM(ReqUser, ReqFeature).rpm

\* C17: whenever a finite limit L is enforced the answer carries
\* X-RateLimit-Limit = L and X-RateLimit-Remaining = max(0, L - currentCount - 1),
\* never negative; a 429 carries Remaining 0 and Retry-After 60; an admitted
\* request with currentCount = L - 1 carries Remaining 0.
C17_RateLimitHeaders ==
    (AtQuotaCheck /\ GetEffectiveRPM(ReqUser, ReqFeature).rpm # 0 - 1) =>
        LET L == GetEffectiveRPM(ReqUser, ReqFeature).rpm
            count == GetFeatureRPM(ReqUser, ReqFeature)
        IN  /\ tkResp.out.limit = <<L>>
            /\ tkResp.out.remaining = <<IF L - count - 1 > 0 THEN L - count - 1 ELSE 0>>
            /\ tkResp.out.remaining[1] >= 0
            /\ tkResp.out.status = 429 =>
                  tkResp.out.remaining = <<0>> /\ tkResp.out.retryAfter = <<60>>
            /\ tkResp.out.status = 200 => tkResp.out.retryAfter = <<>>
            /\ (tkResp.out.status = 200 /\ count = L - 1) => tkResp.out.remaining = <<0>>

\* C17 witness: a 429 whose unclamped remaining count would be negative.
C17_Witness ==
    /\ AtQuotaCheck
    /\ tkResp.out.status = 429
    /\ tkResp.out.remaining = <<0>>
    /\ GetEffectiveRPM(ReqUser, ReqFeature).rpm - GetFeatureRPM(ReqUser, ReqFeature) - 1 < 0

\* The request of tkResp got past the header, token, feature, admin-only and
\* scope checks.
AtIPCheck ==
    /\ tkResp.op = "RequireToken"
    /\ tkResp.req.header # <<>>
    /\ tkResp.req.header[1] \in {"Bearer", "bearer"}
    /\ ValidateTokenResult(tkResp.req.header[2]).result = "ok"
    /\ ReqFeature # NoId
    /\ GetFeatureByID(ReqFeature).admin_only =>
          (CHOOSE t \in tokens :
              t.id = ValidateTokenResult(tkResp.req.header[2]).token).admin_created
    /\ TokenHasFeatureAccess(ValidateTokenResult(tkResp.req.header[2]).featureIds,
                             tkResp.req.slug) = [returns |-> TRUE, access |-> TRUE]

\* C18: a token without allowed IPs is accepted from every client IP; a token
\* with allowed IPs is accepted from a client whose 16-byte form equals the
\* 16-byte form of a listed address, and gets 403 from every other client.
C18_IPPinning ==
    AtIPCheck =>
        LET allowed == ValidateTokenResult(tkResp.req.header[2]).allowedIPs
            listed == /\ ParseIP(tkResp.req.ip) # <<>>
                      /\ \E a \in allowed : ParseIP(a) = ParseIP(tkResp.req.ip)
        IN  IF allowed = {} \/ listed
            THEN tkResp.out.status # 403
            ELSE tkResp.out.status = 403

\* C18 witness: a token pinned to 192.0.2.1 is accepted from the client
\* ::ffff:192.0.2.1.
C18_Witness ==
    /\ AtIPCheck
    /\ tkResp.req.ip = "::ffff:192.0.2.1"
    /\ "192.0.2.1" \in ValidateTokenResult(tkResp.req.header[2]).allowedIPs
    /\ tkResp.out.status = 200

\* The entries of earlier admitted requests of the user and the feature of
\* tkResp that lie inside the window and that the tracker still holds: in the
\* channel, in the writer's batch or in usage_log.
EarlierAdmitted ==
    LET held == { buffer[i] : i \in DOMAIN buffer } \cup { batch[i] : i \in DOMAIN batch }
        own == IF tkResp.out.record THEN recordSeq ELSE 0
    IN  { e.n : e \in { h \in held : /\ h.UserID = ReqUser
                                     /\ h.FeatureID = ReqFeature
                                     /\ h.Timestamp > now - UsageRetentionPeriod
                                     /\ h.n # own } }
        \cup { r.n : r \in { x \in usage_log : /\ x.user_id = ReqUser
                                               /\ x.feature_id = ReqFeature
                                               /\ x.timestamp > now - UsageRetentionPeriod } }

\* C16 as stated: a request of a user with finite limit L on a feature, made
\* when L requests of that user on that feature have been admitted inside the
\* window, is denied with 429, Retry-After 60 and X-RateLimit-Remaining 0: never
\* more than L admitted requests in one window.
C16_WindowLimit ==
    (/\ AtQuotaCheck
     /\ GetEffectiveRPM(ReqUser, ReqFeature).rpm # 0 - 1
     /\ Cardinality(EarlierAdmitted) >= GetEffectiveRPM(ReqUser, ReqFeature).rpm) =>
        /\ tkResp.out.status = 429
        /\ tkResp.out.retryAfter = <<60>>
        /\ tkResp.out.remaining = <<0>>

----------------------------------------------------------------------------
(* The usage specification: requests recorded by any number of callers      *)
(* while the writer takes, batches and flushes entries at its own speed,    *)
(* the store accepts a flush or not, time passes and the process is told to *)
(* shut down.                                                               *)

NextUsage ==
    \/ Tick
    \/ \E u \in {1, 2} : RecordRequest(u, 2)
    \/ \E committed \in BOOLEAN : WriterReceive(committed)
    \/ TickerFire
    \/ \E committed \in BOOLEAN : WriterTick(committed)
    \/ Shutdown
    \/ \E committed \in BOOLEAN : WriterStop(committed)
    \/ DrainReceive
    \/ \E committed \in BOOLEAN : DrainDefault(committed)
    \/ CleanupTickerFire
    \/ cleanup
    \/ CleanerStop

SpecUsage == InitTokens /\ [][NextUsage]_vars

\* C19: record(userId, featureId) can be called in every state and returns
\* (it never waits for the writer); the channel never holds more than its
\* capacity; an entry offered to a full channel is dropped and the channel is
\* left as it was; an entry offered while there is room is appended.
C19_RecordNeverBlocks ==
    /\ [](Len(buffer) <= UsageBufferSize)
    /\ [](recordSeq < MaxRecords => ENABLED RecordRequest(1, 2))
    /\ [][tkResp'.op = "RecordRequest" =>
            /\ tkResp'.out.returns
            /\ Len(buffer) >= UsageBufferSize => buffer' = buffer
            /\ Len(buffer) < UsageBufferSize =>
                  /\ Len(buffer') = Len(buffer) + 1
                  /\ SubSeq(buffer', 1, Len(buffer)) = buffer
                  /\ buffer'[Len(buffer')].UserID = tkResp'.req.user
                  /\ buffer'[Len(buffer')].FeatureID = tkResp'.req.feature
                  /\ buffer'[Len(buffer')].Timestamp = now]_vars

\* C19 witness: an entry was just offered to a full channel and dropped.
C19_Witness ==
    /\ tkResp.op = "RecordRequest"
    /\ Len(buffer) = UsageBufferSize
    /\ \A i \in DOMAIN buffer : buffer[i].n # tkResp.req.n

\* The usage specification under the scheduling the runtime gives: the ticker
\* keeps firing while the writer runs, and the writer goroutine takes every
\* case of its select that stays ready (a ready receive, a ready tick, a
\* closed stop channel; in the drain loop, the receive or the default).
SpecUsageFair ==
    /\ SpecUsage
    /\ WF_vars(TickerFire)
    /\ WF_vars(\E committed \in BOOLEAN : WriterReceive(committed))
    /\ WF_vars(\E committed \in BOOLEAN : WriterTick(committed))
    /\ WF_vars(\E committed \in BOOLEAN : WriterStop(committed))
    /\ WF_vars(DrainReceive)
    /\ WF_vars(\E committed \in BOOLEAN : DrainDefault(committed))
    /\ WF_vars(CleanerStop)

\* The entry of the n-th RecordRequest call is in the channel.
Accepted(n) == \E i \in DOMAIN buffer : buffer[i].n = n

\* featureRpm counts the entry of the n-th call.
Reflected(n) ==
    \E r \in usage_log : r.n = n /\ r.timestamp > now - UsageRetentionPeriod

\* The store has just refused the flush that carried the entry of the n-th
\* call, or the entry has left its window.
Excused(n) ==
    \/ tkResp.op = "flushBatch" /\ n \in tkResp.req.batch /\ ~tkResp.out.committed
    \/ \E i \in DOMAIN buffer : buffer[i].n = n /\ buffer[i].Timestamp <= now - UsageRetentionPeriod
    \/ \E i \in DOMAIN batch : batch[i].n = n /\ batch[i].Timestamp <= now - UsageRetentionPeriod
    \/ \E r \in usage_log : r.n = n /\ r.timestamp <= now - UsageRetentionPeriod

WriterExits == writerPc # "done" /\ writerPc' = "done"

\* C21 as stated: after the shutdown signal the writer returns only when it has
\* flushed its batch and every entry of the channel, and once both workers
\* have been joined no accepted entry is left in the batch or in the channel.
C21_NothingLeftAfterJoin ==
    /\ [][WriterExits => cancelled /\ buffer' = <<>> /\ batch' = <<>>]_vars
    /\ [](Joined => buffer = <<>> /\ batch = <<>>)

\* C22 as stated: after the cancellation signal both workers terminate and
\* Stop's wait returns; the maintenance worker exits without running another
\* cleanup, and the writer exits from its final flush and drain.
C22_WorkersTerminate ==
    /\ cancelled ~> Joined
    /\ [][cancelled => tkResp'.op # "cleanup"]_vars
    /\ [][WriterExits => writerPc = "drain" /\ buffer = <<>>]_vars

\* C23 as stated: the listener stops before the context is cancelled and the
\* workers are joined, hence after the writer's final drain no request is
\* admitted (RecordRequest is step 9 of an admitted request) and no usage
\* entry is recorded.
C23_NothingAfterFinalDrain ==
    [][writerPc = "done" => tkResp'.op # "RecordRequest" /\ buffer' = buffer]_vars

----------------------------------------------------------------------------
(* Sessions *)

\* The number of sessions the model creates.
MaxSessions == 2

NilSession == [id |-> NoId, user_id |-> NoId, expires_at |-> NoInt]

\* Mutant of GetSession: the expiry is not looked at.
GetSessionAnyAge(sessionID) ==
    IF \E r \in sessions : r.id = sessionID
    THEN CHOOSE r \in sessions : r.id = sessionID
    ELSE NilSession

\* SessionStore.GetSession: SELECT ... WHERE id = ? AND expires_at > now.
GetSession(sessionID) ==
    IF \E r \in sessions : r.id = sessionID /\ r.expires_at > now
    THEN CHOOSE r \in sessions : r.id = sessionID /\ r.expires_at > now
    ELSE NilSession

\* SessionStore.GetUserFromSession: the session, then Repository.GetUserByID.
GetUserFromSession(sessionID) ==
    IF GetSession(sessionID) = NilSession THEN NilUser
    ELSE GetUserByID(GetSession(sessionID).user_id)

\* Mutant of RequireSessionStatus: the status of the user is not looked at.
RequireSessionStatusAnyUser(cookie) ==
    IF cookie = NoId THEN 401
    ELSE IF GetUserFromSession(cookie) = NilUser THEN 401
    ELSE 200

\* What the RequireSession middleware answers to a request with this session
\* cookie (NoId: no cookie); 200 stands for c.Next(), the handler is reached.
RequireSessionStatus(cookie) ==
    IF cookie = NoId THEN 401
    ELSE IF GetUserFromSession(cookie) = NilUser THEN 401
    ELSE IF GetUserFromSession(cookie).status # StatusActive THEN 403
    ELSE 200

\* SessionStore.CreateSession
CreateSession(userID) ==
    /\ sessionSeq < MaxSessions
    /\ sessions' = sessions \cup {NewSessionRow(userID)}
    /\ sessionSeq' = sessionSeq + 1
    /\ tkResp' = [op |-> "CreateSession", req |-> [user |-> userID],
                  out |-> [id |-> sessionSeq + 1]]
    /\ UNCHANGED <<now, foreignKeys, issuing, quotaVars, usageVars, groups, academic_domains, users,
                   oauth_identities, oauth_states, issued, validateLog, cbResp, tokenTables>>

\* SessionStore.DeleteSession
DeleteSession(sessionID) ==
    /\ sessions' = { r \in sessions : r.id # sessionID }
    /\ tkResp' = [op |-> "DeleteSession", req |-> [cookie |-> sessionID], out |-> [status |-> 200]]
    /\ UNCHANGED <<now, foreignKeys, issuing, quotaVars, usageVars, groups, academic_domains, users,
                   oauth_identities, oauth_states, sessionSeq, issued, validateLog, cbResp,
                   tokenTables>>

\* A request to a session-guarded route whose handler changes nothing (GET /auth/me).
RequireSession(cookie) ==
    /\ tkResp' = [op |-> "RequireSession", req |-> [cookie |-> cookie],
                  out |-> [status |-> RequireSessionStatus(cookie),
                           session |-> GetSession(cookie).id,
                           user |-> GetUserFromSession(cookie).id]]
    /\ UNCHANGED <<now, foreignKeys, issuing, quotaVars, usageVars, groups, academic_domains, users,
                   loginVars, tokenTables>>

\* GET /auth/logout behind RequireSession: the handler deletes the session of
\* the cookie.
Logout(cookie) ==
    /\ sessions' = IF RequireSessionStatus(cookie) = 200
                   THEN { r \in sessions : r.id # cookie }
                   ELSE sessions
    /\ tkResp' = [op |-> "Logout", req |-> [cookie |-> cookie],
                  out |-> [status |-> RequireSessionStatus(cookie)]]
    /\ UNCHANGED <<now, foreignKeys, issuing, quotaVars, usageVars, groups, academic_domains, users,
                   oauth_identities, oauth_states, sessionSeq, issued, validateLog, cbResp,
                   tokenTables>>

\* Two signed-up users at time 0, no session yet.
InitSession ==
    /\ now = 0
    /\ foreignKeys \in BOOLEAN
    /\ issuing = {}
    /\ groups = SeedGroups
    /\ academic_domains = SeedAcademicDomains
    /\ users = SignedUpUsers
    /\ oauth_identities = SignedUpIdentities
    /\ oauth_states = {}
    /\ sessions = {}
    /\ sessionSeq = 0
    /\ issued = {}
    /\ validateLog = [s \in StateStrings \cup {""} |-> [ok |-> 0, live |-> FALSE]]
    /\ cbResp = NoResp
    /\ features = SeedFeatures
    /\ featureSeq = Cardinality(SeedFeatures)
    /\ tokens = {}
    /\ token_features = {}
    /\ token_allowed_ips = {}
    /\ entropy = <<>>
    /\ minted = {}
    /\ tkResp = NoTkResp
    /\ group_feature_quotas = SeedGroupQuotas
    /\ user_quota_overrides = {}
    /\ usage_log = {}
    /\ usageSeq = 0
    /\ recordSeq = 0
    /\ buffer = <<>>
    /\ batch = <<>>
    /\ tickerC = FALSE
    /\ cancelled = FALSE
    /\ writerPc = "select"
    /\ cleanupC = FALSE
    /\ cleanerPc = "select"

\* The session cookies of the model: none, the sessions created, one never created.
SessionCookies == {NoId} \cup (1..MaxSessions) \cup {9}

NextSession ==
    \/ Tick
    \/ \E u \in {1, 2} : CreateSession(u)
    \/ \E c \in SessionCookies : RequireSession(c)
    \/ \E c \in 1..MaxSessions : Logout(c)
    \/ DeleteSession(1)
    \/ \E st \in {StatusSuspended, StatusActive} : UpdateUser(1, "", st, NoInt, NoInt)
    \/ UpdateUser(1, RoleAdmin, "", NoInt, NoInt)
    \/ UpdateUser(1, "", "", 1, NoInt)
    \/ UpdateUser(1, "", "", NoInt, 3)
    \/ DeleteGroup(2)
    \/ CleanupTickerFire
    \/ cleanup

SpecSession == InitSession /\ [][NextSession]_vars

\* A session row with this id exists and has not expired.
LiveSession(id) == \E r \in sessions : r.id = id /\ now < r.expires_at

\* C24 as stated: the session and the user of an id are returned iff a row
\* with that id exists and now < expiresAt, where expiresAt is the creation
\* time plus the configured duration; once a session is deleted or logged out
\* every later session-guarded request with its cookie is answered 401.
C24_SessionLifecycle ==
    /\ [](tkResp.op = "RequireSession" =>
            /\ tkResp.out.session # NoId <=> LiveSession(tkResp.req.cookie)
            /\ tkResp.out.user # NoId <=> LiveSession(tkResp.req.cookie)
            /\ tkResp.out.user # NoId =>
                  \E r \in sessions : r.id = tkResp.req.cookie /\ r.user_id = tkResp.out.user
            /\ ~(\E r \in sessions : r.id = tkResp.req.cookie) => tkResp.out.status = 401)
    /\ [][/\ \A r \in sessions' \ sessions :
                r.id > sessionSeq /\ r.expires_at = now + SessionDuration
          /\ tkResp'.op \in {"DeleteSession", "Logout"} /\ tkResp'.out.status = 200 =>
                ~(\E r \in sessions' : r.id = tkResp'.req.cookie)]_vars

\* The users row of the owner of this session has this status.
OwnerStatus(id, status) ==
    \E r \in sessions : r.id = id /\ \E u \in users : u.id = r.user_id /\ u.status = status

\* The number of the fields role, status, group_id, max_tokens in which two
\* users rows differ.
ChangedFields(u, v) ==
    Cardinality({ f \in {"role", "status", "group_id", "max_tokens"} : u[f] # v[f] })

\* C25 as stated: a change of a user's status deletes no session; a request
\* with an unexpired session of a suspended user is rejected with 403 and does
\* not reach the handler (a logout deletes nothing); with the status back at
\* active the same unexpired session is admitted again; an update of one of
\* role, status, groupId, maxTokens leaves the other three as they were.
C25_SuspensionKeepsSessions ==
    /\ [](tkResp.op \in {"RequireSession", "Logout"} /\ LiveSession(tkResp.req.cookie) =>
            /\ OwnerStatus(tkResp.req.cookie, StatusSuspended) => tkResp.out.status = 403
            /\ OwnerStatus(tkResp.req.cookie, StatusActive) => tkResp.out.status = 200)
    /\ [][/\ users' # users => sessions' = sessions
          /\ tkResp'.op = "Logout" /\ tkResp'.out.status # 200 => sessions' = sessions
          /\ \A u \in users : \A v \in users' : u.id = v.id =>
                ChangedFields(u, v) <= 1 /\ u.email = v.email]_vars

----------------------------------------------------------------------------
(* The guard while tokens are revoked, users suspended and features made    *)
(* admin-only                                                               *)

\* A request to the schedule route with the token of this body.
BearerRequest(slug, body, ip) ==
    [slug |-> slug, header |-> <<"Bearer", <<TokenPrefix, body>>>>, ip |-> ip]

\* The requests: the user token, the admin-created token, the pinned token from
\* an address it is not pinned to, a token never issued, a token without the
\* prefix, no header, another scheme, and a route outside the token's scope.
LiveRequests ==
    { BearerRequest("schedule", b, "192.0.2.1") : b \in {"a", "c", "zz"} }
    \cup { BearerRequest("schedule", "b", "192.0.2.2"),
           BearerRequest("search", "a", "192.0.2.1"),
           BearerRequest("search", "b", "192.0.2.2"),
           BearerRequest("nope", "a", "192.0.2.1"),
           BearerRequest("nope", "zz", "192.0.2.1"),
           [slug |-> "schedule", header |-> <<"Bearer", <<"ghp_", "a">>>>, ip |-> "192.0.2.1"],
           [slug |-> "schedule", header |-> <<>>, ip |-> "192.0.2.1"],
           [slug |-> "schedule", header |-> <<"Basic", <<TokenPrefix, "a">>>>, ip |-> "192.0.2.1"] }

NextLive ==
    \/ Tick
    \/ \E r \in LiveRequests : RequireToken(r.slug, r.header, r.ip)
    \/ RevokeToken(1, 1)
    \/ \E st \in {StatusSuspended, StatusActive} : UpdateUser(1, "", st, NoInt, NoInt)
    \/ \E b \in BOOLEAN : UpdateFeature(2, NoId, <<b>>)

SpecLive == InitGuard /\ [][NextLive]_vars

\* What ValidateToken gives for the token of the request of tkResp.
ReqValidated == ValidateTokenResult(tkResp.req.header[2])

\* The request of tkResp carries a Bearer header.
ReqBearer == tkResp.op = "RequireToken" /\ Len(tkResp.req.header) = 2
             /\ tkResp.req.header[1] \in {"Bearer", "bearer"}

\* C26 as stated: each rejection of the token guard has the status of its
\* error kind: 401 for a missing or malformed header and for a token that is
\* malformed, unknown, expired or revoked; 403 for a token whose owner is
\* suspended, for a scope failure and for a disallowed IP; 429 for rate
\* limiting.
C26_RejectionStatus ==
    /\ tkResp.op = "RequireToken" /\ ~ReqBearer => tkResp.out.status = 401
    /\ ReqBearer =>
          /\ ReqValidated.result \in {"TokenFormatInvalid", "TokenUnknown", "TokenExpired",
                                      "TokenRevoked"} => tkResp.out.status = 401
          /\ ReqValidated.result = "UserNotActive" => tkResp.out.status = 403
          /\ tkResp.out.error \in {"token does not have access to feature", "invalid client IP",
                                   "IP address not allowed for this token"} =>
                tkResp.out.status = 403
          /\ tkResp.out.error = "rate limit exceeded" => tkResp.out.status = 429

\* The request of tkResp carries a valid token of an active owner for an
\* existing route, from an address the token allows.
AtAdminCheck ==
    /\ ReqBearer
    /\ ReqValidated.result = "ok"
    /\ ReqFeature # NoId
    /\ IsIPAllowed(CanonicalizeIP(tkResp.req.ip), ReqValidated.allowedIPs)

\* The token of the request of tkResp was created by an administrator.
ReqAdminCreated == \E t \in tokens : t.id = ReqValidated.token /\ t.admin_created

\* The admin_only column of the feature of the route, as stored now.
ReqAdminOnly == \E f \in features : f.id = ReqFeature /\ f.admin_only

\* The scope of the token of the request of tkResp covers the route.
ReqCovered == ReqFeature \in ReqValidated.featureIds

\* C27: the admin-only check reads the flag of the route's feature at request
\* time: while the flag is set a token that is not admin-created is rejected
\* with 403 although its scope covers the route and the flag was clear when
\* it was issued, and an admin-created token with covering scope is admitted;
\* while the flag is clear the user token with covering scope is admitted.
C27_AdminOnlyIsLive ==
    AtAdminCheck =>
        /\ ReqAdminOnly /\ ~ReqAdminCreated =>
              /\ tkResp.out.status = 403
              /\ tkResp.out.error = "this feature requires an admin-issued token"
              /\ ~tkResp.out.record
        /\ ReqAdminOnly /\ ReqAdminCreated /\ ReqCovered =>
              tkResp.out.status = 200 /\ tkResp.out.record
        /\ ~ReqAdminOnly /\ ReqCovered =>
              tkResp.out.status = 200 /\ tkResp.out.record

\* C27 witness: the user token, issued while schedule was not admin-only and
\* with schedule in its scope, is rejected because the feature is admin-only
\* now.
C27_Witness ==
    /\ AtAdminCheck
    /\ ~ReqAdminCreated
    /\ ReqCovered
    /\ ReqAdminOnly
    /\ ~(\E f \in SeedFeatures : f.id = ReqFeature /\ f.admin_only)
    /\ tkResp.out.status = 403

\* C28 as stated: every user's group_id names an existing group in every
\* reachable state, and DeleteGroup on a group some user references fails and
\* leaves the groups as they were.
C28_GroupReferences ==
    /\ [](\A u \in users : \E g \in groups : g.id = u.group_id)
    /\ [][tkResp'.op = "DeleteGroup" /\ (\E u \in users : u.group_id = tkResp'.req.id) =>
            tkResp'.out.result # "ok" /\ groups' = groups]_vars

----------------------------------------------------------------------------
(* Sign-up: the group of a new user *)

\* POST /admin/academic-domains: INSERT OR IGNORE of the domain as given.
AddAcademicDomain(domain) ==
    /\ academic_domains' = academic_domains \cup {domain}
    /\ tkResp' = [op |-> "AddAcademicDomain", req |-> [domain |-> domain], out |-> <<>>]
    /\ UNCHANGED <<now, foreignKeys, issuing, quotaVars, usageVars, groups, users, loginVars, tokenTables>>

\* DELETE /admin/academic-domains/:domain
RemoveAcademicDomain(domain) ==
    /\ academic_domains' = academic_domains \ {domain}
    /\ tkResp' = [op |-> "RemoveAcademicDomain", req |-> [domain |-> domain], out |-> <<>>]
    /\ UNCHANGED <<now, foreignKeys, issuing, quotaVars, usageVars, groups, users, loginVars, tokenTables>>

\* What the provider reports: e-mails as their parts between '@' signs, among
\* them an upper-case academic domain, one with two '@' and one with none.
SignupInfos ==
    { [provider_id |-> "42", email |-> <<"alice", "cs.duth.gr">>],
      [provider_id |-> "43", email |-> <<"bob", "CS.DUTH.GR">>],
      [provider_id |-> "44", email |-> <<"carol", "example.org">>],
      [provider_id |-> "45", email |-> <<"eve", "x", "cs.duth.gr">>],
      [provider_id |-> "46", email |-> <<"mallory">>] }

NextSignup ==
    \/ \E st \in StateStrings : Login(ProviderGoogle, st)
    \/ \E st \in StateStrings, info \in SignupInfos :
            Callback(ProviderGoogle, st, st, "", "C", info)
    \/ AddAcademicDomain("example.org")
    \/ RemoveAcademicDomain("cs.duth.gr")
    \/ DeleteGroup(2)

SpecSignup == InitLogin /\ [][NextSignup]_vars

\* The id of the group of this name, 1 when there is none.
GroupIdOr1(name) ==
    IF \E g \in groups : g.name = name THEN (CHOOSE g \in groups : g.name = name).id ELSE 1

\* The group of the claim as stated: by the part after the last '@'.
LastAtGroup(email) ==
    GroupIdOr1(IF Len(email) >= 2 /\ ToLower(email[Len(email)]) \in academic_domains
               THEN "academic" ELSE "regular")

\* The group by the code's split: a domain only when the e-mail has exactly
\* one '@'.
OneAtGroup(email) ==
    GroupIdOr1(IF Len(email) = 2 /\ ToLower(email[2]) \in academic_domains
               THEN "academic" ELSE "regular")

\* C29 as stated: a new user gets the academic group iff the lowercased part
\* after the last '@' of the e-mail is in the academic-domains set at signup
\* time, the regular group otherwise, group id 1 when the group lookup fails;
\* no step changes the row of an existing user.
C29_GroupByLastAt ==
    [][/\ \A row \in users' \ users : row.group_id = LastAtGroup(row.email)
       /\ \A u \in users : u \in users']_vars

\* C29 amended: the e-mail is split at every '@'; unless that gives exactly
\* two parts the group is regular; otherwise the second part is lowercased and
\* the group is academic iff it is in the academic-domains set at signup time,
\* else regular; when the group of that name is not found the id is 1.  A new
\* user gets exactly this group, and no later login, change of the
\* academic-domains set or group deletion changes the row of an existing user.
C29_GroupByOneAt ==
    [][/\ \A row \in users' \ users : row.group_id = OneAtGroup(row.email)
       /\ \A u \in users : u \in users']_vars

\* C29 witness: a user whose e-mail has two '@' and ends in an academic domain
\* was signed up into the regular group while the domain was in the set and
\* both groups existed.
C29_Witness ==
    /\ cbResp.op = "Callback"
    /\ \E u \in users : /\ Len(u.email) = 3
                        /\ ToLower(u.email[3]) \in academic_domains
                        /\ u.group_id = GroupIdOr1("regular")
    /\ \E g \in groups : g.name = "academic"

\* The step is an issuance.
IssuanceOps == {"CreateUserToken", "CreateAdminToken"}

\* C30: issuance is all-or-nothing: every token row has its scope rows, no
\* scope row and no allowed-IP row is without its token row, a successful
\* issuance has stored exactly the scope rows and the allowed-IP rows of its
\* request, and an issuance that returns an error, a store failure in the
\* middle of the transaction included, leaves tokens, token_features and
\* token_allowed_ips as they were.
C30_IssuanceAtomic ==
    /\ [](/\ \A t \in tokens : \E r \in token_features : r.token_id = t.id
          /\ \A r \in token_features \cup token_allowed_ips :
                \E t \in tokens : t.id = r.token_id)
    /\ [](tkResp.op \in IssuanceOps /\ tkResp.out.result = "ok" =>
            /\ \E t \in tokens : t.id = tkResp.out.token
            /\ { r.feature_id : r \in { x \in token_features : x.token_id = tkResp.out.token } }
                  = { GetFeatureBySlug(tkResp.req.slugs[i]).id : i \in DOMAIN tkResp.req.slugs }
            /\ { r.ip_address : r \in { x \in token_allowed_ips : x.token_id = tkResp.out.token } }
                  = { CanonicalizeIP(tkResp.req.ips[i]) : i \in DOMAIN tkResp.req.ips })
    /\ [][tkResp'.op \in IssuanceOps /\ tkResp'.out.result # "ok" =>
            UNCHANGED <<tokens, token_features, token_allowed_ips>>]_vars

\* C30 witness: an issuance whose second allowed-IP row was refused (the two
\* addresses have the same canonical form) has just returned its error.
C30_Witness ==
    /\ tkResp.op \in IssuanceOps
    /\ tkResp.out.result = "StoreError"
    /\ Len(tkResp.req.ips) = 2
    /\ CanonicalizeIP(tkResp.req.ips[1]) = CanonicalizeIP(tkResp.req.ips[2])
    /\ \E u \in users : u.id = tkResp.req.user

----------------------------------------------------------------------------
(* The order of the checks of user-path issuance.                            *)

\* The checks of CreateUserToken that a request fails in the state it arrives
\* in, by their position in the documented order.
FailedChecks(req) ==
    { i \in 1..6 :
        CASE i = 1 -> req.label \in {"", " "}
          [] i = 2 -> ~(\E u \in users : u.id = req.user)
          [] i = 3 -> \E u \in users :
                         /\ u.id = req.user
                         /\ Cardinality({ t \in tokens : t.user_id = u.id
                                              /\ t.revoked_at = NoInt }) >= u.max_tokens
          [] i = 4 -> \/ req.slugs = <<>>
                      \/ \E k \in DOMAIN req.slugs :
                            ~(\E f \in features : f.slug = req.slugs[k])
          [] i = 5 -> \E k \in DOMAIN req.slugs :
                         \E f \in features : f.slug = req.slugs[k] /\ f.admin_only
          [] i = 6 -> \E k \in DOMAIN req.ips :
                         req.ips[k] \notin {"192.0.2.1", "::ffff:192.0.2.1", "192.0.2.2",
                                            "2001:db8::1", "2001:db8:0:0:0:0:0:1"} }

\* The answers that report the check at each position.
CheckAnswers ==
    <<{"LabelRequired"}, {"UserNotFound"}, {"TokenQuotaExhausted"},
      {"FeatureRequired", "FeatureUnknown"}, {"FeatureAdminOnly"}, {"IpInvalid"}>>

\* C31: user-path issuance reports the first check that fails in the order
\* label, user, quota, slugs, admin-only feature, IPs; a request that fails none
\* of them gets past the checks.
C31_CheckOrder ==
    [][ tkResp'.op = "CreateUserToken"
        => LET failed == FailedChecks(tkResp'.req)
           IN  IF failed = {}
               THEN tkResp'.out.result \in {"ok", "StoreError"}
               ELSE \E i \in failed :
                       /\ \A j \in failed : i <= j
                       /\ tkResp'.out.result \in CheckAnswers[i]
      ]_vars

\* A request over the quota that names an unknown slug has been answered
\* TokenQuotaExhausted.
C31_Witness ==
    /\ tkResp.op = "CreateUserToken" /\ tkResp.out.result = "TokenQuotaExhausted"
    /\ \E k \in DOMAIN tkResp.req.slugs : tkResp.req.slugs[k] = "nope"
    /\ \E u \in users : u.id = tkResp.req.user /\ u.max_tokens = 0

\* A request naming an admin-only feature and an invalid IP has been answered
\* FeatureAdminOnly.
C31_AdminOnlyBeforeIp ==
    /\ tkResp.op = "CreateUserToken" /\ tkResp.out.result = "FeatureAdminOnly"
    /\ tkResp.req.ips = <<"not-an-ip">>

----------------------------------------------------------------------------
(* The flushes of the usage writer.                                          *)

\* What every step of the writer satisfies: rows are added to usage_log only
\* by the receive that fills the batch, by a tick that finds the batch
\* non-empty, or at shutdown (the flush on cancellation and the flush that
\* ends the drain); a tick that finds the batch empty writes nothing; after a
\* flush the batch is empty.
FlushSteps ==
    /\ usage_log' \ usage_log # {}
        => \/ /\ writerPc = "select" /\ writerPc' = "select"
              /\ buffer # <<>> /\ buffer' = Tail(buffer)
              /\ Len(batch) + 1 = FlushBatchSize
           \/ tickerC /\ ~tickerC' /\ batch # <<>>
           \/ writerPc = "select" /\ writerPc' = "drain" /\ cancelled
           \/ writerPc = "drain" /\ writerPc' = "done"
    /\ tickerC /\ ~tickerC' /\ batch = <<>> => usage_log' = usage_log
    /\ usage_log' \ usage_log # {} \/ tkResp'.op = "flushBatch" => batch' = <<>>

\* C32 as stated: the flushes happen on exactly these events, and no batch the
\* writer holds in memory ever has more entries than the flush size.
C32_BatchNeverAboveFlushSize ==
    [](Len(batch) <= FlushBatchSize) /\ [][FlushSteps]_vars

\* C32, amended: the flushes happen on exactly these events; the batch of the
\* writer's loop stays below the flush size between two steps, while the batch
\* drainAndFlush collects at shutdown is bounded only by the entries the
\* channel delivers.
C32_FlushEvents ==
    /\ [](writerPc = "select" => Len(batch) < FlushBatchSize)
    /\ [](Len(batch) <= recordSeq)
    /\ [][FlushSteps]_vars

\* The receive that filled the batch has flushed it, and the batch of the
\* running writer is empty again.
C32_Witness ==
    /\ tkResp.op = "flushBatch" /\ Cardinality(tkResp.req.batch) = FlushBatchSize
    /\ writerPc = "select" /\ ~cancelled /\ batch = <<>>
    /\ usage_log # {}

----------------------------------------------------------------------------
(* The flush specification: the running writer, the requests that record     *)
(* usage, and the removal of a feature while entries for it wait in the      *)
(* channel or in the batch.                                                  *)

NextFlush ==
    \/ Tick
    \/ \E u \in {1, 2}, f \in {1, 2} : RecordRequest(u, f)
    \/ \E committed \in BOOLEAN : WriterReceive(committed)
    \/ TickerFire
    \/ \E committed \in BOOLEAN : WriterTick(committed)
    \/ DeleteFeature(2)

SpecFlush == InitTokens /\ [][NextFlush]_vars

----------------------------------------------------------------------------
(* The purge of the usage log and the window of the counts.                  *)

\* C34: the maintenance cleanup deletes only usage rows that are at least the
\* retention period old, and it leaves featureRpm(user, feature) and
\* userTotalRpm(user) as they were, for every user and feature.
C34_PurgeKeepsCounts ==
    [][ tkResp'.op = "cleanup"
        => /\ usage_log' \subseteq usage_log
           /\ \A r \in usage_log \ usage_log' : now - r.timestamp >= UsageRetentionPeriod
           /\ \A u \in {1, 2} :
                 /\ GetUserTotalRPM(u)' = GetUserTotalRPM(u)
                 /\ \A f \in 1..6 : GetFeatureRPM(u, f)' = GetFeatureRPM(u, f)
      ]_vars

\* A cleanup has deleted usage rows and has left rows that the counts see.
C34_Witness ==
    /\ tkResp.op = "cleanup"
    /\ Cardinality(usage_log) < usageSeq
    /\ \E u \in {1, 2} : GetFeatureRPM(u, 2) > 0 /\ GetUserTotalRPM(u) > 0

----------------------------------------------------------------------------
(* The race specification: user-path issuance requests served at the same    *)
(* time, and revocation by the owner.  The administrator sets the user's     *)
(* limit before the first request; no admin-path issuance takes place.       *)

MaxInFlight == 2

NextRace ==
    \/ \E g \in 1..MaxInFlight, u \in {1, 2}, r \in {PlainRequest,
             [PlainRequest EXCEPT !.expires = 0],
             [PlainRequest EXCEPT !.slugs = <<"maps", "schedule">>]} :
          CreateUserTokenChecks(g, u, r.label, r.slugs, r.ips, r.expires)
    \/ \E g \in 1..MaxInFlight : CreateUserTokenInsert(g)
    \/ \E t \in {1, 2}, u \in {1, 2} : RevokeToken(t, u)
    \/ tokens = {} /\ issuing = {} /\ UpdateUser(1, "", "", NoInt, 1)

SpecRace == InitTokens /\ [][NextRace]_vars

\* C35: with user-path issuance requests for the same user running at the same
\* time, the number of the user's tokens that are not revoked never exceeds the
\* user's max_tokens.
C35_QuotaUnderConcurrency ==
    \A u \in users :
        Cardinality({ t \in tokens : t.user_id = u.id /\ t.revoked_at = NoInt })
            <= u.max_tokens

----------------------------------------------------------------------------
(* The usage the token guard records.                                        *)

\* C36: the token guard calls record once for each request it admits, with the
\* owner of the presented token and the id of the feature of the route, and
\* does not call it for a request it answers with 401, 403, 429 or 500 (or
\* never answers).
C36_RecordAdmittedOnly ==
    [][ tkResp'.op = "RequireToken"
        => IF tkResp'.out.status = 200
           THEN /\ recordSeq' = recordSeq + 1
                /\ \E t \in tokens, f \in features :
                      /\ t.token_hash = hashToken(tkResp'.req.header[2])
                      /\ f.slug = tkResp'.req.slug
                      /\ buffer' = IF Len(buffer) < UsageBufferSize
                                   THEN Append(buffer, [UserID |-> t.user_id,
                                                        FeatureID |-> f.id,
                                                        Timestamp |-> now,
                                                        n |-> recordSeq + 1])
                                   ELSE buffer
           ELSE /\ tkResp'.out.status \in {0, 401, 403, 429, 500}
                /\ recordSeq' = recordSeq
                /\ buffer' = buffer
      ]_vars

\* A request to maps.tiles, admitted because the token is scoped to its parent
\* schedule, has been recorded under maps.tiles; a request was denied with 429
\* before.
C36_Witness ==
    /\ tkResp.op = "RequireToken" /\ tkResp.out.status = 200
    /\ tkResp.req.slug = "maps.tiles"
    /\ \E f \in features : f.id = 4 /\ f.parent_id = 2
    /\ ~(\E r \in token_features : r.feature_id = 4)
    /\ buffer # <<>> /\ buffer[Len(buffer)].FeatureID = 4
    /\ buffer[Len(buffer)].n = recordSeq

----------------------------------------------------------------------------
(* The way of a usage entry from record to usage_log.                        *)

\* The entries the tracker holds in memory: the channel and the batch.
InMemory ==
    { buffer[i] : i \in DOMAIN buffer } \cup { batch[i] : i \in DOMAIN batch }

\* What every step satisfies: a row added to usage_log is an entry that was in
\* memory and has left it; an entry that enters memory is the one the record
\* call of the step accepted.
EntrySteps ==
    /\ \A r \in usage_log' \ usage_log :
          \E e \in InMemory \ InMemory' :
              /\ r.n = e.n /\ r.user_id = e.UserID
              /\ r.feature_id = e.FeatureID /\ r.timestamp = e.Timestamp
    /\ \A e \in InMemory' \ InMemory :
          /\ tkResp'.op = "RecordRequest"
          /\ recordSeq' = recordSeq + 1
          /\ e = [UserID |-> tkResp'.req.user, FeatureID |-> tkResp'.req.feature,
                  Timestamp |-> now, n |-> recordSeq']

\* C37: every entry record accepted is inserted into usage_log at most once,
\* and usage_log receives only entries record accepted, whether the flush is
\* triggered by the size, by the tick, by the shutdown or by the end of the
\* drain: no entry is at two places of the memory, none is in memory and in the
\* log, no two rows are the same entry.
C37_InsertedAtMostOnce ==
    /\ [](Cardinality(InMemory) = Len(buffer) + Len(batch))
    /\ [](\A e \in InMemory : ~(\E r \in usage_log : r.n = e.n))
    /\ [](\A r1, r2 \in usage_log : r1.n = r2.n => r1 = r2)
    /\ [](\A r \in usage_log : r.n \in 1..recordSeq)
    /\ [][EntrySteps]_vars

\* The writer has returned after a flush of its batch on shutdown and a flush
\* of the drained entries, and three entries are in the log, once each.
C37_Witness ==
    /\ writerPc = "done" /\ tkResp.op = "flushBatch"
    /\ { r.n : r \in usage_log } = {1, 2, 3}
    /\ Cardinality(usage_log) = 3
    /\ usageSeq = 3

----------------------------------------------------------------------------
(* The order of the checks of the token guard: the live guard specification  *)
(* with a limit of 1 for alice on schedule and the writer storing the        *)
(* recorded usage.                                                           *)

NextOrder ==
    \/ NextLive
    \/ SetUserQuotaOverride(1, 2, <<1>>)
    \/ WriterReceive(TRUE)

SpecOrder == InitGuard /\ [][NextOrder]_vars

\* The usage rows of the last minute for the owner of the token and the
\* feature of the route of the request of tkResp.
ReqCount ==
    Cardinality({ r \in usage_log : /\ r.user_id = ReqValidated.userId
                                     /\ r.feature_id = ReqFeature
                                     /\ now - r.timestamp < UsageRetentionPeriod })

\* The client IP of the request of tkResp is not among the allowed IPs of its
\* token, which has some.
ReqIPRefused ==
    /\ ReqValidated.allowedIPs # {}
    /\ tkResp.req.ip \notin {"192.0.2.1", "::ffff:192.0.2.1"}
          \/ "192.0.2.1" \notin ReqValidated.allowedIPs
    /\ tkResp.req.ip \notin {"192.0.2.2"} \/ "192.0.2.2" \notin ReqValidated.allowedIPs
    /\ tkResp.req.ip \notin {"2001:db8::1", "2001:db8:0:0:0:0:0:1"}
          \/ "2001:db8::1" \notin ReqValidated.allowedIPs

\* C38: the token guard answers with the first failure in the order header,
\* token, feature of the route, admin-only flag, scope, client IP, limit, and
\* admits the request when none fails; so an invalid token gets 401 whatever
\* the feature, the IP and the usage are, a 429 goes only to a valid token with
\* covering scope from an allowed IP, and no 401 or 403 carries rate-limit
\* headers.
C38_GuardOrder ==
    tkResp.op = "RequireToken"
    => LET out == tkResp.out
           limit == GetEffectiveRPM(ReqValidated.userId, ReqFeature).rpm
       IN  /\ IF ~ReqBearer THEN out.status = 401
               ELSE IF ReqValidated.result # "ok"
               THEN out.status = 401 /\ out.error = ReqValidated.result
               ELSE IF ReqFeature = NoId THEN out.status = 500
               ELSE IF ReqAdminOnly /\ ~ReqAdminCreated
               THEN /\ out.status = 403
                    /\ out.error = "this feature requires an admin-issued token"
               ELSE IF ~ReqCovered
               THEN /\ out.status = 403
                    /\ out.error = "token does not have access to feature"
               ELSE IF ReqIPRefused
               THEN /\ out.status = 403
                    /\ out.error \in {"invalid client IP",
                                      "IP address not allowed for this token"}
               ELSE IF limit # UnlimitedRPM /\ ReqCount >= limit
               THEN out.status = 429 /\ out.retryAfter = <<60>>
               ELSE out.status = 200
           /\ out.status = 429 =>
                 /\ ReqBearer /\ ReqValidated.result = "ok"
                 /\ ReqCovered /\ ~ReqIPRefused
           /\ out.status \in {401, 403} =>
                 out.limit = <<>> /\ out.remaining = <<>> /\ out.retryAfter = <<>>

\* The pinned token, presented from an address it is not pinned to while its
\* owner is over the limit of the route, has been answered 403 for the address.
C38_Witness ==
    /\ tkResp.op = "RequireToken" /\ tkResp.out.status = 403
    /\ tkResp.out.error = "IP address not allowed for this token"
    /\ GetEffectiveRPM(ReqValidated.userId, ReqFeature).rpm # UnlimitedRPM
    /\ ReqCount >= GetEffectiveRPM(ReqValidated.userId, ReqFeature).rpm

----------------------------------------------------------------------------
(* The extend specification: sessions are created, used, extended, deleted   *)
(* and purged while time passes.                                             *)

\* SessionStore.ExtendSession: UPDATE sessions SET expires_at = ? WHERE id = ?
ExtendSession(sessionID) ==
    /\ sessions' = { IF r.id = sessionID
                     THEN [r EXCEPT !.expires_at = now + SessionDuration] ELSE r :
                     r \in sessions }
    /\ tkResp' = [op |-> "ExtendSession", req |-> [cookie |-> sessionID], out |-> <<>>]
    /\ UNCHANGED <<now, foreignKeys, issuing, quotaVars, usageVars, groups, academic_domains, users,
                   oauth_identities, oauth_states, sessionSeq, issued, validateLog, cbResp,
                   tokenTables>>

NextExtend ==
    \/ Tick
    \/ \E u \in {1, 2} : CreateSession(u)
    \/ \E c \in SessionCookies : RequireSession(c)
    \/ \E c \in 1..MaxSessions : ExtendSession(c)
    \/ \E c \in 1..MaxSessions : DeleteSession(c)
    \/ CleanupTickerFire
    \/ cleanup

SpecExtend == InitSession /\ [][NextExtend]_vars

\* C39: a session that has expired is not returned by any later get or
\* userFor, whatever is created, read, extended, deleted or purged in
\* between; and the maintenance cleanup deletes no session that get would
\* still return.
C39_ExpiredNeverAccepted ==
    [][ /\ \A id \in 1..MaxSessions :
              (\E r \in sessions : r.id = id /\ now >= r.expires_at)
              => /\ ~(\E r \in sessions' : r.id = id /\ now' < r.expires_at)
                 /\ tkResp'.op = "RequireSession" /\ tkResp'.req.cookie = id
                       => tkResp'.out.session = NoId /\ tkResp'.out.user = NoId
        /\ tkResp'.op = "cleanup"
              => \A r \in sessions \ sessions' : now >= r.expires_at
      ]_vars

----------------------------------------------------------------------------
(* The moment a callback consumes the OAuth state.                           *)

====
